---- MODULE Spec2Model ----
(***************************************************************************)
(* GlassBite meal-intake pipeline: photo -> recognition -> allergen screen *)
(* -> nutrient lookup -> category reply -> daily ledger, with its inverse  *)
(* operations cancel_pending_meal and delete_last_meal.                    *)
(*                                                                         *)
(* Nutrient quantities are integers (one unit = one smallest quantity the  *)
(* lookup returns); confidences are integers in tenths (3 = 0.3).          *)
(***************************************************************************)
EXTENDS Integers, Sequences, FiniteSets, TLC

\* ------------------------------------------------------------------ bounds
\* Number of photos handled in a run (each creates one Meal row).
MaxMeals == 3
\* Number of meal timestamps that fall on the same calendar date.
TicksPerDay == 2

\* SQL NULL / Python None.
NULL == "NULL"

\* ------------------------------------------------------- string functions
UpperChars == "ABCDEFGHIJKLMNOPQRSTUVWXYZ"
LowerChars == "abcdefghijklmnopqrstuvwxyz"

CharAt(s, i) == SubSeq(s, i, i)

\* str.lower() on one character.
LowerChar(c) ==
    IF \E i \in 1..Len(UpperChars) : CharAt(UpperChars, i) = c
    THEN CharAt(LowerChars, CHOOSE i \in 1..Len(UpperChars) : CharAt(UpperChars, i) = c)
    ELSE c

\* str.lower()
RECURSIVE Lower(_)
Lower(s) == IF Len(s) = 0 THEN "" ELSE LowerChar(CharAt(s, 1)) \o Lower(SubSeq(s, 2, Len(s)))

\* Python `k in s` for strings: k occurs in s as a substring.
Contains(k, s) == \E i \in 1..(Len(s) - Len(k) + 1) : SubSeq(s, i, i + Len(k) - 1) = k

\* str.find(k) + 1: position of the first occurrence of k in s, 0 when absent.
Find(k, s) ==
    IF Contains(k, s)
    THEN CHOOSE i \in 1..(Len(s) - Len(k) + 1) :
            /\ SubSeq(s, i, i + Len(k) - 1) = k
            /\ \A j \in 1..(i - 1) : SubSeq(s, j, j + Len(k) - 1) # k
    ELSE 0

\* str.strip() (blanks only).
RECURSIVE Strip(_)
Strip(s) ==
    IF Len(s) = 0 THEN ""
    ELSE IF CharAt(s, 1) = " " THEN Strip(SubSeq(s, 2, Len(s)))
    ELSE IF CharAt(s, Len(s)) = " " THEN Strip(SubSeq(s, 1, Len(s) - 1))
    ELSE s

\* str.split(sep): the list of the parts of s between occurrences of sep.
RECURSIVE Split(_, _)
Split(s, sep) ==
    IF Find(sep, s) = 0 THEN <<s>>
    ELSE <<SubSeq(s, 1, Find(sep, s) - 1)>>
         \o Split(SubSeq(s, Find(sep, s) + Len(sep), Len(s)), sep)

\* str.replace(old, ""): every occurrence of old removed.
RECURSIVE Remove(_, _)
Remove(s, old) ==
    IF Find(old, s) = 0 THEN s
    ELSE SubSeq(s, 1, Find(old, s) - 1)
         \o Remove(SubSeq(s, Find(old, s) + Len(old), Len(s)), old)

\* sep.join(parts)
RECURSIVE Join(_, _)
Join(parts, sep) ==
    IF Len(parts) = 0 THEN ""
    ELSE IF Len(parts) = 1 THEN parts[1]
    ELSE parts[1] \o sep \o Join(Tail(parts), sep)

\* Character order of the characters restriction names are made of.
CharOrder == " ,abcdefghijklmnopqrstuvwxyz"
Ord(c) == IF Contains(c, CharOrder) THEN Find(c, CharOrder) ELSE 0

\* Python's string order: a < b.
RECURSIVE StrLess(_, _)
StrLess(a, b) ==
    IF Len(b) = 0 THEN FALSE
    ELSE IF Len(a) = 0 THEN TRUE
    ELSE IF CharAt(a, 1) = CharAt(b, 1) THEN StrLess(SubSeq(a, 2, Len(a)), SubSeq(b, 2, Len(b)))
    ELSE Ord(CharAt(a, 1)) < Ord(CharAt(b, 1))

\* sorted(set_of_strings)
Least(S) == CHOOSE e \in S : \A y \in S \ {e} : StrLess(e, y)
RECURSIVE Sorted(_)
Sorted(S) == IF S = {} THEN <<>> ELSE <<Least(S)>> \o Sorted(S \ {Least(S)})

\* The elements of a sequence.
Range(q) == {q[i] : i \in 1..Len(q)}

\* [f(x) for x in q]
MapSeq(f(_), q) == [i \in 1..Len(q) |-> f(q[i])]

\* Concatenation of a sequence of sequences.
RECURSIVE Flatten(_)
Flatten(qq) == IF Len(qq) = 0 THEN <<>> ELSE Head(qq) \o Flatten(Tail(qq))

RECURSIVE SumSeq(_)
SumSeq(q) == IF Len(q) = 0 THEN 0 ELSE Head(q) + SumSeq(Tail(q))

Max(a, b) == IF a >= b THEN a ELSE b

\* --------------------------------------------------------- allergen screen
\* AllergenService.allergen_database, in its insertion order.
allergen_database == <<
    [key |-> "dairy", display_name |-> "Dairy",
     keywords |-> <<"milk", "cheese", "butter", "cream", "yogurt", "whey", "casein",
                    "lactose", "ghee", "paneer", "mozzarella", "cheddar", "parmesan">>],
    [key |-> "gluten", display_name |-> "Gluten",
     keywords |-> <<"wheat", "bread", "pasta", "flour", "barley", "rye", "couscous",
                    "seitan", "semolina", "spelt", "noodle", "tortilla", "pita">>],
    [key |-> "nuts", display_name |-> "Nuts",
     keywords |-> <<"almond", "walnut", "cashew", "pecan", "pistachio", "hazelnut",
                    "macadamia", "peanut", "nut">>],
    [key |-> "shellfish", display_name |-> "Shellfish",
     keywords |-> <<"shrimp", "crab", "lobster", "prawn", "crawfish", "clam",
                    "mussel", "oyster", "scallop">>],
    [key |-> "fish", display_name |-> "Fish",
     keywords |-> <<"salmon", "tuna", "cod", "tilapia", "fish", "anchovy", "sardine",
                    "halibut", "trout", "bass", "mackerel">>],
    [key |-> "eggs", display_name |-> "Eggs",
     keywords |-> <<"egg", "omelet", "omelette", "scrambled", "mayonnaise", "meringue">>],
    [key |-> "soy", display_name |-> "Soy",
     keywords |-> <<"soy", "tofu", "edamame", "tempeh", "miso", "soy sauce">>],
    [key |-> "meat", display_name |-> "Meat",
     keywords |-> <<"beef", "pork", "chicken", "turkey", "lamb", "veal", "bacon",
                    "ham", "sausage", "steak", "meatball", "burger">>],
    [key |-> "pork", display_name |-> "Pork",
     keywords |-> <<"pork", "bacon", "ham", "sausage", "prosciutto", "pepperoni">>],
    [key |-> "alcohol", display_name |-> "Alcohol",
     keywords |-> <<"wine", "beer", "vodka", "rum", "whiskey", "sake", "champagne">>] >>

\* AllergenService.dietary_preferences, in its insertion order.
dietary_preferences == <<
    [key |-> "vegetarian", display_name |-> "Vegetarian",
     excludes |-> <<"meat", "fish", "shellfish">>],
    [key |-> "vegan", display_name |-> "Vegan",
     excludes |-> <<"meat", "fish", "shellfish", "dairy", "eggs">>],
    [key |-> "pescatarian", display_name |-> "Pescatarian",
     excludes |-> <<"meat">>],
    [key |-> "halal", display_name |-> "Halal",
     excludes |-> <<"pork", "alcohol">>],
    [key |-> "kosher", display_name |-> "Kosher",
     excludes |-> <<"pork", "shellfish">>] >>

AllergenKeys == {allergen_database[i].key : i \in 1..Len(allergen_database)}
PreferenceKeys == {dietary_preferences[i].key : i \in 1..Len(dietary_preferences)}

\* allergen_database[a] / dietary_preferences[p]
AllergenEntry(a) == allergen_database[CHOOSE i \in 1..Len(allergen_database) : allergen_database[i].key = a]
PreferenceEntry(p) == dietary_preferences[CHOOSE i \in 1..Len(dietary_preferences) : dietary_preferences[i].key = p]

\* any(keyword in text for keyword in allergen_database[a]['keywords'])
KeywordHit(a, text) == \E k \in Range(AllergenEntry(a).keywords) : Contains(k, text)

\* AllergenService.parse_user_restrictions: the stored restriction string (or
\* NULL) parsed into the lists of recognised allergens and preferences.
parse_user_restrictions(restrictions_string) ==
    IF restrictions_string = NULL \/ restrictions_string = ""
    THEN [allergens |-> <<>>, preferences |-> <<>>]
    ELSE LET restrictions == MapSeq(LAMBDA r : Lower(Strip(r)), Split(restrictions_string, ","))
         IN  [allergens   |-> SelectSeq(restrictions, LAMBDA r : r \in AllergenKeys),
              preferences |-> SelectSeq(restrictions,
                                  LAMBDA r : r \notin AllergenKeys /\ r \in PreferenceKeys)]

\* The ingredients part of detect_ingredients: each ingredient that contains a
\* keyword is appended once, unless the list already holds it.
RECURSIVE IngredientHits(_, _)
IngredientHits(acc, ingredients_list) ==
    IF Len(ingredients_list) = 0 THEN acc
    ELSE IngredientHits(
            IF /\ \E a \in AllergenKeys : KeywordHit(a, Lower(Head(ingredients_list)))
               /\ Head(ingredients_list) \notin Range(acc)
            THEN Append(acc, Head(ingredients_list)) ELSE acc,
            Tail(ingredients_list))

\* AllergenService.detect_ingredients: the allergens whose keywords occur in the
\* food's name or in one of its reported ingredients, and the matched texts.
detect_ingredients(food_name, ingredients_list) ==
    LET food_lower == Lower(food_name)
        name_hits == Flatten([i \in 1..Len(allergen_database) |->
                        SelectSeq(allergen_database[i].keywords,
                                  LAMBDA k : Contains(k, food_lower))])
    IN  [detected_allergens |->
             {a \in AllergenKeys :
                 \/ KeywordHit(a, food_lower)
                 \/ \E g \in Range(ingredients_list) : KeywordHit(a, Lower(g))},
         detected_ingredients |-> IngredientHits(name_hits, ingredients_list)]

\* A restricted set made of the explicit allergens alone; the variant C19 must
\* tell from RestrictedAllergens.
ExplicitAllergensOnly(user_restrictions) == Range(user_restrictions.allergens)

\* The restricted set of validate_meal: the explicit allergens united with the
\* allergens every listed preference excludes.
RestrictedAllergens(user_restrictions) ==
    Range(user_restrictions.allergens) \cup
    UNION {Range(PreferenceEntry(p).excludes) : p \in Range(user_restrictions.preferences)}

\* The violations of one food with the severity decided by the preferences
\* first: 'preference' whenever a listed preference excludes the allergen; the
\* variant C20 must tell from FoodViolations.
FoodViolationsPreferenceFirst(food, user_restrictions) ==
    LET restricted == RestrictedAllergens(user_restrictions)
        hits == SelectSeq([i \in 1..Len(allergen_database) |-> allergen_database[i].key],
                          LAMBDA a : a \in food.detected_allergens /\ a \in restricted)
    IN  [i \in 1..Len(hits) |->
            [food_name        |-> food.name,
             allergen         |-> hits[i],
             allergen_display |-> AllergenEntry(hits[i]).display_name,
             ingredient       |-> hits[i],
             severity         |-> IF \E p \in Range(user_restrictions.preferences) :
                                        hits[i] \in Range(PreferenceEntry(p).excludes)
                                  THEN "preference" ELSE "allergen"]]

\* The violations of one food (the inner loop of validate_meal), in the order
\* of allergen_database.
FoodViolations(food, user_restrictions) ==
    LET restricted == RestrictedAllergens(user_restrictions)
        hits == SelectSeq([i \in 1..Len(allergen_database) |-> allergen_database[i].key],
                          LAMBDA a : a \in food.detected_allergens /\ a \in restricted)
        Ingredient(a) ==
            LET matching == SelectSeq(food.detected_ingredients,
                                      LAMBDA g : KeywordHit(a, Lower(g)))
            IN  IF Len(matching) > 0 THEN matching[1] ELSE a
    IN  [i \in 1..Len(hits) |->
            [food_name        |-> food.name,
             allergen         |-> hits[i],
             allergen_display |-> AllergenEntry(hits[i]).display_name,
             ingredient       |-> Ingredient(hits[i]),
             severity         |-> IF hits[i] \in Range(user_restrictions.allergens)
                                  THEN "allergen" ELSE "preference"]]

\* A gate that blocks a meal only when none of its foods is safe; the variant
\* C2 must tell from validate_meal.
validate_meal_unless_some_safe(foods, user_restrictions) ==
    LET per_food == [i \in 1..Len(foods) |-> FoodViolations(foods[i], user_restrictions)]
        safe_idx == SelectSeq([i \in 1..Len(foods) |-> i], LAMBDA i : Len(per_food[i]) = 0)
    IN  [has_violations |-> Len(foods) > 0 /\ Len(safe_idx) = 0,
         violations     |-> Flatten(per_food),
         safe_foods     |-> [j \in 1..Len(safe_idx) |-> foods[safe_idx[j]].name]]

\* AllergenService.validate_meal(food_items, user_restrictions).  The result has
\* the keys of the dictionary returned at lines 241-246, but for 'summary', a
\* text made from `violations` that no caller reads.
validate_meal(foods, user_restrictions) ==
    LET per_food == [i \in 1..Len(foods) |-> FoodViolations(foods[i], user_restrictions)]
        violations == Flatten(per_food)
        safe_idx == SelectSeq([i \in 1..Len(foods) |-> i], LAMBDA i : Len(per_food[i]) = 0)
    IN  [has_violations |-> Len(violations) > 0,
         violations     |-> violations,
         safe_foods     |-> [j \in 1..Len(safe_idx) |-> foods[safe_idx[j]].name]]

\* ------------------------------------------------------- external services
\* A nullable column or an absent dictionary key: None, or Some(v).
None == <<>>
Some(v) == <<v>>
\* Python's `x or 0` on a nullable number.
OrZero(x) == IF x = None THEN 0 ELSE x[1]

\* What get_nutrition_data returns from a USDA record: the seven main nutrients
\* are all present (_extract_nutrients starts them at 0).
UsdaNutrition(cal, pro, carb, fat, fib, sug, sod) ==
    [calories |-> Some(cal), protein_g |-> Some(pro), carbs_g |-> Some(carb),
     fat_g |-> Some(fat), fiber_g |-> Some(fib), sugar_g |-> Some(sug), sodium_mg |-> Some(sod)]
\* What it returns from the fallback table or from _estimate_nutrition: fiber,
\* sugar and sodium are not keys of the result, so .get() gives None.
EstimatedNutrition(cal, pro, carb, fat) ==
    [calories |-> Some(cal), protein_g |-> Some(pro), carbs_g |-> Some(carb),
     fat_g |-> Some(fat), fiber_g |-> None, sugar_g |-> None, sodium_mg |-> None]

\* Candidates the Vision Recognition Client can return, each with the answer the
\* Nutrient Lookup Client gives for it.  portion_is_number is FALSE when the
\* recognition put a non-number in portion_grams, on which the lookup raises.
GardenSalad ==
    [name |-> "Garden Salad", portion_grams |-> 150, portion_is_number |-> TRUE,
     confidence |-> 9, ingredients |-> <<"lettuce", "tomato">>,
     nutrition |-> UsdaNutrition(2, 1, 1, 0, 1, 2, 3)]
ShrimpPasta ==
    [name |-> "shrimp pasta", portion_grams |-> 200, portion_is_number |-> TRUE,
     confidence |-> 5, ingredients |-> <<>>,
     nutrition |-> EstimatedNutrition(3, 1, 2, 1)]
BlurredObject ==
    [name |-> "object", portion_grams |-> 50, portion_is_number |-> TRUE,
     confidence |-> 1, ingredients |-> <<>>,
     nutrition |-> EstimatedNutrition(1, 0, 1, 0)]
RiceNoPortion ==
    [name |-> "rice", portion_grams |-> 0, portion_is_number |-> FALSE,
     confidence |-> 8, ingredients |-> <<>>,
     nutrition |-> EstimatedNutrition(1, 0, 1, 0)]

\* The recognition results a photo can give: the candidate lists, or an error
\* raised by analyze_food_image.
Photos ==
    { <<>>, <<BlurredObject>>, <<GardenSalad>>,
      <<GardenSalad, ShrimpPasta>>, <<GardenSalad, RiceNoPortion>> }
Recognitions ==
    {[raised |-> TRUE, foods |-> <<>>]} \cup {[raised |-> FALSE, foods |-> f] : f \in Photos}

\* The phone numbers messages come from, and the restriction commands sent.
Phones == {"whatsapp:+1", "whatsapp:+2"}
AddMessages == {"Add Shellfish"}
MealTypes == {"breakfast", "lunch", "dinner", "snack"}
\* The category replies sent.
Replies == {"breakfast", "dinner"}

\* A send that raises when the message cannot be delivered; the variant C24
\* must tell from send_message.
send_message_raising(delivered) ==
    [raised |-> ~delivered, sid |-> IF delivered THEN Some("SM") ELSE None]

\* TwilioService.send_message: the message SID when Twilio accepted the
\* message, None when messages.create raised; it never raises itself.
send_message(delivered) ==
    [raised |-> FALSE, sid |-> IF delivered THEN Some("SM") ELSE None]

\* A non-food check that looks at the number of candidates only; the variant
\* C10 must tell from detect_non_food_image.
detect_no_candidates(detected_foods) == Len(detected_foods) = 0

\* GeminiService.detect_non_food_image: no candidate, or mean confidence < 0.3
\* (confidences in tenths, so sum / len < 3).
detect_non_food_image(detected_foods) ==
    \/ Len(detected_foods) = 0
    \/ SumSeq([i \in 1..Len(detected_foods) |-> detected_foods[i].confidence])
           < 3 * Len(detected_foods)

\* MealProcessor.determine_meal_type
determine_meal_type(hour) ==
    IF 5 <= hour /\ hour < 11 THEN "breakfast"
    ELSE IF 11 <= hour /\ hour < 15 THEN "lunch"
    ELSE IF 15 <= hour /\ hour < 18 THEN "snack"
    ELSE IF 18 <= hour /\ hour <= 23 THEN "dinner"
    ELSE "snack"

\* timestamp.date() and timestamp.hour of a meal timestamp.
DateOf(ts) == ts \div TicksPerDay
HourOf(ts) == ((ts % TicksPerDay) * 24) \div TicksPerDay

\* ------------------------------------------------- restriction commands
\* ChatbotService._normalize_restrictions
normalize_restrictions(restrictions_string) ==
    IF restrictions_string = "" THEN ""
    ELSE Join(Sorted({Lower(Strip(r)) : r \in {x \in Range(Split(restrictions_string, ",")) : Strip(x) # ""}}), ",")

\* The part of classify_question that gives 'add_restriction' (lines 176-181).
AddRestrictionWords ==
    <<"restriction", "allergy", "allergen", "dairy", "gluten", "nuts", "shellfish", "fish",
      "eggs", "soy", "meat", "pork", "alcohol", "vegan", "vegetarian", "pescatarian",
      "halal", "kosher">>
IsAddRestriction(message_text) ==
    LET message == Lower(message_text)
    IN  /\ (Len(message) >= 4 /\ SubSeq(message, 1, 4) = "add ") \/ Contains(" add ", message)
        /\ \E w \in Range(AddRestrictionWords) : Contains(w, message)

\* The restriction handle_add_restriction extracts from the message: None, or
\* Some(text after the first keyword, trailing words removed).
RestrictionToAdd(message_text) ==
    LET message == Lower(message_text)
        keywords == SelectSeq(<<"add ", "add restriction ", "add allergy ", "add allergen ">>,
                              LAMBDA k : Contains(k, message))
    IN  IF Len(keywords) = 0 THEN None
        ELSE Some(Remove(Remove(Remove(Strip(Split(message, keywords[1])[2]),
                     " restriction"), " allergy"), " allergen"))

\* ChatbotService.handle_add_restriction: the user's dietary_restrictions after
\* the command.
handle_add_restriction(current_restrictions, message_text) ==
    LET to_add == RestrictionToAdd(message_text)
        current == IF current_restrictions = NULL THEN "" ELSE current_restrictions
        current_list == SelectSeq(MapSeq(Strip, Split(current, ",")), LAMBDA r : r # "")
    IN  IF to_add = None \/ to_add = Some("") THEN current_restrictions
        ELSE IF to_add[1] \in Range(current_list) THEN current_restrictions
        ELSE LET new_restrictions == normalize_restrictions(Join(Append(current_list, to_add[1]), ","))
                 parsed == parse_user_restrictions(new_restrictions)
             IN  IF Len(parsed.allergens) = 0 /\ Len(parsed.preferences) = 0
                 THEN current_restrictions
                 ELSE new_restrictions

\* The parts of classify_question that give 'view_restrictions' (lines 162-172),
\* 'remove_restriction' (183-188) and 'restrictions_management' (191-194).
IsViewRestrictions(message_text) ==
    LET message == Lower(message_text)
    IN  \/ /\ \E v \in {"show my", "what are my", "view my", "what is my", "list my",
                         "check my", "what's my"} : Contains(v, message)
           /\ \E w \in {"restriction", "restrict", "allerg", "allegy", "dietary",
                         "diet restriction"} : Contains(w, message)
        \/ \E v \in {"what am i allergic", "show allergies", "view allergies",
                      "list allergies", "check allergies"} : Contains(v, message)
IsRemoveRestriction(message_text) ==
    LET message == Lower(message_text)
    IN  /\ (Len(message) >= 7 /\ SubSeq(message, 1, 7) = "remove ") \/ Contains(" remove ", message)
        /\ \E w \in Range(AddRestrictionWords) : Contains(w, message)
IsSetRestrictions(message_text) ==
    \E v \in {"my restrictions are", "my allergies are", "set restrictions", "set allergies",
              "update restrictions", "dietary restrictions", "i am allergic", "i'm allergic",
              "i have allergies"} : Contains(v, Lower(message_text))

\* The restrictions handle_restrictions_setup extracts from the message (lines
\* 878-890): None, or Some(text after the first keyword found, the trailing
\* words removed).
RestrictionsPart(message_text) ==
    LET message == Lower(message_text)
        keywords == SelectSeq(<<"restrictions are", "allergies are", "allergic to",
                                "restrictions:", "allergies:", "i have", "i am", "i'm">>,
                              LAMBDA k : Contains(k, message))
    IN  IF Len(keywords) = 0 THEN None
        ELSE IF Strip(Split(message, keywords[1])[2]) = "" THEN Some("")
        ELSE Some(Remove(Remove(Remove(Remove(Strip(Split(message, keywords[1])[2]),
                     " allergy"), " allergies"), " restriction"), " restrictions"))

\* ChatbotService.handle_restrictions_setup: the user's dietary_restrictions
\* after the command.
handle_restrictions_setup(current_restrictions, message_text) ==
    LET restrictions_part == RestrictionsPart(message_text)
        current == IF current_restrictions = NULL THEN "" ELSE current_restrictions
        NamesOf(str) == {Lower(Strip(r)) : r \in {x \in Range(Split(str, ",")) : Strip(x) # ""}}
    IN  IF restrictions_part = None \/ restrictions_part = Some("") THEN current_restrictions
        ELSE LET parsed == parse_user_restrictions(restrictions_part[1])
             IN  IF Len(parsed.allergens) = 0 /\ Len(parsed.preferences) = 0
                 THEN current_restrictions
                 ELSE normalize_restrictions(
                          Join(Sorted(NamesOf(current) \cup NamesOf(restrictions_part[1])), ","))

\* The foods of a recognition with detected_allergens / detected_ingredients set
\* (the loop before validate_meal).
WithDetection(detected_foods) ==
    [i \in 1..Len(detected_foods) |->
        LET allergen_info == detect_ingredients(detected_foods[i].name, detected_foods[i].ingredients)
        IN  [name |-> detected_foods[i].name,
             detected_allergens |-> allergen_info.detected_allergens,
             detected_ingredients |-> allergen_info.detected_ingredients]]

\* Every value dietary_restrictions can take: NULL and whatever the restriction
\* commands make of it.
AfterOneCommand(S) == S \cup {handle_add_restriction(r, msg) : r \in S, msg \in AddMessages}
RECURSIVE RestrictionClosure(_)
RestrictionClosure(S) == IF AfterOneCommand(S) = S THEN S ELSE RestrictionClosure(AfterOneCommand(S))
RestrictionStrings == RestrictionClosure({NULL})

\* Steps 3-4 of process_meal computed once for every photo and restriction
\* string: parse_user_restrictions, the detect_ingredients loop, validate_meal.
ScreenRows ==
    {[foods |-> f, restrictions |-> r,
      validation_result |-> validate_meal(WithDetection(f), parse_user_restrictions(r))] :
        f \in Photos, r \in RestrictionStrings}
Screen(detected_foods, restrictions_string) ==
    (CHOOSE row \in ScreenRows :
        row.foods = detected_foods /\ row.restrictions = restrictions_string).validation_result

\* The messages of AddMessages that classify_question gives 'add_restriction'.
AddRestrictionMessages == {msg \in AddMessages : IsAddRestriction(msg)}

\* handle_add_restriction computed once for the same.
AddRows ==
    {[current |-> r, message_text |-> msg, result |-> handle_add_restriction(r, msg)] :
        r \in RestrictionStrings, msg \in AddMessages}
AddedRestriction(current_restrictions, message_text) ==
    (CHOOSE row \in AddRows :
        row.current = current_restrictions /\ row.message_text = message_text).result

\* ---------------------------------------------------------------- the state
VARIABLES
    users,            \* users table: phone -> [dietary_restrictions, last_meal_id]
    meals,            \* meals table: id -> [user_id, meal_type, timestamp, processing_status]
    food_items,       \* food_items table: id -> [meal_id, name, portion_size_grams, confidence_score]
    food_nutrients,   \* food_nutrients table: id -> [food_item_id, calories, ...]
    daily_summaries,  \* daily_summaries table: <<user_id, date>> -> totals and meal_count
    next_meal_id,     \* the meals id sequence
    next_food_id,     \* the food_items / food_nutrients id sequences
    now,              \* datetime.now()
    inflight,         \* requests between two of their commits: the meals of running
                      \* process_meal calls, or the running ledger requests
    lastOp            \* the last operation handled and what it returned or sent

vars == <<users, meals, food_items, food_nutrients, daily_summaries,
          next_meal_id, next_food_id, now, inflight, lastOp>>

db == <<users, meals, food_items, food_nutrients, daily_summaries>>

\* A function without the keys in ks.
Without(f, ks) == [k \in DOMAIN f \ ks |-> f[k]]

\* database_utils.get_or_create_user / app.get_or_create_user
get_or_create_user(tbl, phone_number) ==
    IF phone_number \in DOMAIN tbl THEN tbl
    ELSE tbl @@ (phone_number :> [dietary_restrictions |-> NULL, last_meal_id |-> None])

\* The same query ordered by timestamp ascending; the variant C5 must tell from
\* LatestMeal.
EarliestMeal(tbl, user_id, statuses) ==
    LET match == {m \in DOMAIN tbl : tbl[m].user_id = user_id
                                      /\ tbl[m].processing_status \in statuses}
    IN  IF match = {} THEN None
        ELSE Some(CHOOSE m \in match : \A o \in match : tbl[m].timestamp <= tbl[o].timestamp)

\* The same query without its status filter; the variant C7 must tell from
\* LatestMeal.
LatestMealAnyStatus(tbl, user_id, statuses) ==
    LET match == {m \in DOMAIN tbl : tbl[m].user_id = user_id}
    IN  IF match = {} THEN None
        ELSE Some(CHOOSE m \in match : \A o \in match : tbl[o].timestamp <= tbl[m].timestamp)

\* Meal.query.filter_by(user_id=...).filter(status in ...).order_by(timestamp.desc()).first()
\* over the meals table tbl: None, or Some(id).
LatestMeal(tbl, user_id, statuses) ==
    LET match == {m \in DOMAIN tbl : tbl[m].user_id = user_id
                                      /\ tbl[m].processing_status \in statuses}
    IN  IF match = {} THEN None
        ELSE Some(CHOOSE m \in match : \A o \in match : tbl[o].timestamp <= tbl[m].timestamp)

\* FoodItem.query.filter_by(meal_id=...).all()
ItemsOf(fi, meal_id) == {i \in DOMAIN fi : fi[i].meal_id = meal_id}

\* Sum of one nutrient column over a meal's items: `item.nutrients.<col> or 0`,
\* an item without a FoodNutrient row adding nothing.
RECURSIVE SumOver(_, _, _)
SumOver(items, fn, col) ==
    IF items = {} THEN 0
    ELSE LET i == CHOOSE x \in items : TRUE
             rows == {n \in DOMAIN fn : fn[n].food_item_id = i}
             v == IF rows = {} THEN 0 ELSE OrZero(fn[CHOOSE n \in rows : TRUE][col])
         IN  v + SumOver(items \ {i}, fn, col)

MealTotal(fi, fn, meal_id, col) == SumOver(ItemsOf(fi, meal_id), fn, col)

\* db.session.delete(meal): the meal with its food items and their nutrients
\* (cascade='all, delete-orphan').
CascadeItems(fi, meal_id) == Without(fi, ItemsOf(fi, meal_id))
\* A delete that leaves the nutrients of the deleted items behind; the variant
\* C35 must tell from CascadeNutrients.
KeepNutrients(fi, fn, meal_id) == fn
CascadeNutrients(fi, fn, meal_id) ==
    Without(fn, {n \in DOMAIN fn : fn[n].food_item_id \in ItemsOf(fi, meal_id)})

ZeroSummary ==
    [total_calories |-> 0, total_protein |-> 0, total_carbs |-> 0, total_fat |-> 0,
     total_fiber |-> 0, total_sugar |-> 0, total_sodium |-> 0, meal_count |-> 0]

\* The summary row of (user, date), a missing row read as all zeros.
SummaryOrZero(tbl, user_id, date) ==
    IF <<user_id, date>> \in DOMAIN tbl THEN tbl[<<user_id, date>>] ELSE ZeroSummary

Init ==
    /\ users = <<>>
    /\ meals = <<>>
    /\ food_items = <<>>
    /\ food_nutrients = <<>>
    /\ daily_summaries = <<>>
    /\ next_meal_id = 1
    /\ next_food_id = 1
    /\ now = 0
    /\ inflight = {}
    /\ lastOp = [op |-> "none"]

\* ------------------------------------------------------------ process_meal
\* Step 5 of process_meal, the loop over detected_foods: one get_nutrition_data
\* call per food, then a FoodItem and its FoodNutrient added to the session.
\* The loop ends early, raised, at a food the lookup raises on.
RECURSIVE PersistFoods(_, _, _)
PersistFoods(detected_foods, meal_id, acc) ==
    IF Len(detected_foods) = 0 THEN acc
    ELSE LET food_data == Head(detected_foods)
             id == acc.next_food_id
         IN  IF ~food_data.portion_is_number
             THEN [acc EXCEPT !.lookups = @ + 1, !.raised = TRUE]
             ELSE PersistFoods(Tail(detected_foods), meal_id,
                    [food_items |-> acc.food_items @@ (id :>
                         [meal_id |-> meal_id,
                          name |-> food_data.name,
                          portion_size_grams |-> food_data.portion_grams,
                          confidence_score |-> food_data.confidence]),
                     food_nutrients |-> acc.food_nutrients @@ (id :>
                         ([food_item_id |-> id] @@ food_data.nutrition)),
                     next_food_id |-> id + 1,
                     lookups |-> acc.lookups + 1,
                     raised |-> FALSE])

\* process_meal without its except handler: an error raised by
\* analyze_food_image leaves the draft as it is and nothing is sent; the
\* variant C23 must tell from ProcessMealOutcome.
ProcessMealOutcomeUncaught(restrictions_string, draft_meal_type, m, recognition) ==
    LET validation_result == Screen(recognition.foods, restrictions_string)
        start == [food_items |-> food_items, food_nutrients |-> food_nutrients,
                  next_food_id |-> next_food_id, lookups |-> 0, raised |-> FALSE]
    IN  IF recognition.raised
        THEN [status |-> "pending", meal_type |-> draft_meal_type, persisted |-> start,
              exit |-> "recognition_error", message |-> "none"]
        ELSE IF detect_non_food_image(recognition.foods)
        THEN [status |-> "failed", meal_type |-> draft_meal_type, persisted |-> start,
              exit |-> "no_food", message |-> "no_food_prompt"]
        ELSE IF validation_result.has_violations
        THEN [status |-> "failed", meal_type |-> draft_meal_type, persisted |-> start,
              exit |-> "blocked", message |-> "allergen_alert"]
        ELSE LET done == PersistFoods(recognition.foods, m, start)
             IN  IF done.raised
                 THEN [status |-> "failed", meal_type |-> draft_meal_type, persisted |-> done,
                       exit |-> "lookup_error", message |-> "retry_prompt"]
                 ELSE [status |-> "analyzed", meal_type |-> "pending", persisted |-> done,
                       exit |-> "analyzed", message |-> "category_prompt"]

\* process_meal after the draft Meal row m is committed (line 49), for a user
\* whose dietary_restrictions is restrictions_string: recognition, the
\* non-food check, the allergen gate, the lookups, and the final status write.
\* The result gives the status and meal_type written, the rows persisted, the
\* exit taken, the message sent last and the number of get_nutrition_data calls.
ProcessMealOutcome(restrictions_string, draft_meal_type, m, recognition) ==
    LET validation_result == Screen(recognition.foods, restrictions_string)
        start == [food_items |-> food_items, food_nutrients |-> food_nutrients,
                  next_food_id |-> next_food_id, lookups |-> 0, raised |-> FALSE]
    IN  IF recognition.raised
        THEN [status |-> "failed", meal_type |-> draft_meal_type, persisted |-> start,
              exit |-> "recognition_error", message |-> "retry_prompt"]
        ELSE IF detect_non_food_image(recognition.foods)
        THEN [status |-> "failed", meal_type |-> draft_meal_type, persisted |-> start,
              exit |-> "no_food", message |-> "no_food_prompt"]
        ELSE IF validation_result.has_violations
        THEN [status |-> "failed", meal_type |-> draft_meal_type, persisted |-> start,
              exit |-> "blocked", message |-> "allergen_alert"]
        ELSE LET done == PersistFoods(recognition.foods, m, start)
             IN  IF done.raised
                 THEN [status |-> "failed", meal_type |-> draft_meal_type, persisted |-> done,
                       exit |-> "lookup_error", message |-> "retry_prompt"]
                 ELSE [status |-> "analyzed", meal_type |-> "pending", persisted |-> done,
                       exit |-> "analyzed", message |-> "category_prompt"]

\* The draft Meal row of a photo received now (lines 39-46).
DraftMeal(phone_number) ==
    [user_id |-> phone_number,
     meal_type |-> determine_meal_type(HourOf(now)),
     timestamp |-> now,
     processing_status |-> "pending"]

\* The send of the call's last message, made after the status is committed
\* (lines 63, 101, 199, 210).  An error raised by the send of the category
\* prompt would be caught at line 202 and the meal marked failed; raised by one
\* of the other sends it would leave a meal that is failed already.
AfterSend(out, sent) ==
    IF sent.raised /\ out.exit = "analyzed" THEN [out EXCEPT !.status = "failed"] ELSE out

\* What process_meal(phone_number, image_url) writes when the photo gives
\* `recognition` and Twilio accepts (delivered) or refuses the call's last
\* message: the user, meal, food item and food nutrient rows.
ProcessMealSent(phone_number, recognition, delivered) ==
    /\ next_meal_id <= MaxMeals
    /\ inflight = {}
    /\ LET created == get_or_create_user(users, phone_number)
           m == next_meal_id
           draft == DraftMeal(phone_number)
           sent == send_message(delivered)
           out == AfterSend(ProcessMealOutcome(created[phone_number].dietary_restrictions,
                                               draft.meal_type, m, recognition), sent)
       IN  /\ users' = created
           /\ meals' = meals @@ (m :> [draft EXCEPT !.processing_status = out.status,
                                                    !.meal_type = out.meal_type])
           /\ food_items' = out.persisted.food_items
           /\ food_nutrients' = out.persisted.food_nutrients
           /\ next_food_id' = out.persisted.next_food_id
           /\ lastOp' = [op |-> "process_meal", user |-> phone_number, meal |-> m,
                         foods |-> recognition.foods,
                         restrictions |-> created[phone_number].dietary_restrictions,
                         exit |-> out.exit, message |-> out.message,
                         lookups |-> out.persisted.lookups,
                         recognition_raised |-> recognition.raised,
                         delivered |-> sent.sid # None]
    /\ next_meal_id' = next_meal_id + 1
    /\ now' = now + 1
    /\ UNCHANGED inflight

\* The same with every message delivered.
ProcessMealRows(phone_number, recognition) == ProcessMealSent(phone_number, recognition, TRUE)

\* process_meal counting the photo in the day's summary as soon as it is
\* analysed, whatever its outcome; the variant C9 must tell from ProcessMeal.
ProcessMealCountingPhotos(phone_number, recognition) ==
    /\ ProcessMealRows(phone_number, recognition)
    /\ daily_summaries' = [k \in DOMAIN daily_summaries \cup {<<phone_number, DateOf(now)>>} |->
                              [SummaryOrZero(daily_summaries, k[1], k[2]) EXCEPT
                                  !.meal_count = IF k = <<phone_number, DateOf(now)>>
                                                 THEN @ + 1 ELSE @]]

\* process_meal handled as a whole; it never touches the daily_summaries table.
ProcessMeal(phone_number, recognition) ==
    /\ ProcessMealRows(phone_number, recognition)
    /\ UNCHANGED daily_summaries

\* process_meal handled as a whole, its last message delivered or not.
ProcessMealDelivery(phone_number, recognition, delivered) ==
    /\ ProcessMealSent(phone_number, recognition, delivered)
    /\ UNCHANGED daily_summaries

\* process_meal up to its first commit (line 49): the user row and the draft
\* Meal row, other requests being handled before the call goes on.
ProcessMealStart(phone_number) ==
    /\ next_meal_id <= MaxMeals
    /\ users' = get_or_create_user(users, phone_number)
    /\ meals' = meals @@ (next_meal_id :> DraftMeal(phone_number))
    /\ next_meal_id' = next_meal_id + 1
    /\ now' = now + 1
    /\ inflight' = inflight \cup {next_meal_id}
    /\ lastOp' = [op |-> "process_meal_start", user |-> phone_number, meal |-> next_meal_id]
    /\ UNCHANGED <<food_items, food_nutrients, daily_summaries, next_food_id>>

\* process_meal after its first commit, for the draft it created.  When the
\* draft row was deleted meanwhile (cancel), every write of the call fails and
\* its transaction is rolled back.
ProcessMealFinish(m, recognition) ==
    /\ m \in inflight
    /\ inflight' = inflight \ {m}
    /\ IF m \in DOMAIN meals
       THEN LET out == ProcessMealOutcome(users[meals[m].user_id].dietary_restrictions,
                                          meals[m].meal_type, m, recognition)
            IN  /\ meals' = [meals EXCEPT ![m].processing_status = out.status,
                                          ![m].meal_type = out.meal_type]
                /\ food_items' = out.persisted.food_items
                /\ food_nutrients' = out.persisted.food_nutrients
                /\ next_food_id' = out.persisted.next_food_id
                /\ lastOp' = [op |-> "process_meal", user |-> meals[m].user_id, meal |-> m,
                              foods |-> recognition.foods,
                              restrictions |-> users[meals[m].user_id].dietary_restrictions,
                              exit |-> out.exit, message |-> out.message,
                              lookups |-> out.persisted.lookups,
                              recognition_raised |-> recognition.raised,
                              delivered |-> TRUE]
       ELSE /\ lastOp' = [op |-> "process_meal_lost", meal |-> m]
            /\ UNCHANGED <<meals, food_items, food_nutrients, next_food_id>>
    /\ UNCHANGED <<users, daily_summaries, next_meal_id, now>>

\* ------------------------------------------------- complete_meal_processing
\* The totals complete_meal_processing computes from the FoodNutrient rows.
CommitTotals(fi, fn, meal_id) ==
    [calories |-> MealTotal(fi, fn, meal_id, "calories"),
     protein  |-> MealTotal(fi, fn, meal_id, "protein_g"),
     carbs    |-> MealTotal(fi, fn, meal_id, "carbs_g"),
     fat      |-> MealTotal(fi, fn, meal_id, "fat_g"),
     fiber    |-> MealTotal(fi, fn, meal_id, "fiber_g"),
     sugar    |-> MealTotal(fi, fn, meal_id, "sugar_g"),
     sodium   |-> MealTotal(fi, fn, meal_id, "sodium_mg")]

\* A ledger write that stores the meal's totals instead of adding them; the
\* variant C8 must tell from update_daily_summary.
update_daily_summary_overwrite(tbl, user_id, target_date, t) ==
    [k \in DOMAIN tbl \cup {<<user_id, target_date>>} |->
        IF k = <<user_id, target_date>>
        THEN [total_calories |-> t.calories, total_protein |-> t.protein,
              total_carbs |-> t.carbs, total_fat |-> t.fat, total_fiber |-> t.fiber,
              total_sugar |-> t.sugar, total_sodium |-> t.sodium,
              meal_count |-> SummaryOrZero(tbl, user_id, target_date).meal_count + 1]
        ELSE tbl[k]]

\* A ledger write whose query filters by date only: every user's summary of
\* the date is increased.
update_daily_summary_by_date(tbl, user_id, target_date, t) ==
    [k \in DOMAIN tbl \cup {<<user_id, target_date>>} |->
        IF k[2] = target_date
        THEN LET summary == SummaryOrZero(tbl, k[1], target_date)
             IN  [total_calories |-> summary.total_calories + t.calories,
                  total_protein  |-> summary.total_protein + t.protein,
                  total_carbs    |-> summary.total_carbs + t.carbs,
                  total_fat      |-> summary.total_fat + t.fat,
                  total_fiber    |-> summary.total_fiber + t.fiber,
                  total_sugar    |-> summary.total_sugar + t.sugar,
                  total_sodium   |-> summary.total_sodium + t.sodium,
                  meal_count     |-> summary.meal_count + 1]
        ELSE tbl[k]]

\* MealProcessor.update_daily_summary: the row is created at zero when missing,
\* then every total is increased and meal_count incremented.
update_daily_summary(tbl, user_id, target_date, t) ==
    LET summary == SummaryOrZero(tbl, user_id, target_date)
        updated == [total_calories |-> summary.total_calories + t.calories,
                    total_protein  |-> summary.total_protein + t.protein,
                    total_carbs    |-> summary.total_carbs + t.carbs,
                    total_fat      |-> summary.total_fat + t.fat,
                    total_fiber    |-> summary.total_fiber + t.fiber,
                    total_sugar    |-> summary.total_sugar + t.sugar,
                    total_sodium   |-> summary.total_sodium + t.sodium,
                    meal_count     |-> summary.meal_count + 1]
    IN  [k \in DOMAIN tbl \cup {<<user_id, target_date>>} |->
            IF k = <<user_id, target_date>> THEN updated ELSE tbl[k]]

\* A commit that marks every awaiting meal of the user, where the code takes
\* the first row of its query.
CompleteEveryAwaiting(user_id, meal_type, ledger_ok) ==
    LET found == LatestMeal([m \in {x \in DOMAIN meals : meals[x].meal_type = "pending"} |-> meals[m]],
                            user_id, {"analyzed"})
        awaiting == {x \in DOMAIN meals : /\ meals[x].user_id = user_id
                                          /\ meals[x].meal_type = "pending"
                                          /\ meals[x].processing_status = "analyzed"}
    IN  /\ user_id \in DOMAIN users
        /\ IF found = None
           THEN /\ lastOp' = [op |-> "complete_meal_processing", user |-> user_id,
                              success |-> FALSE, raised |-> FALSE]
                /\ UNCHANGED <<meals, daily_summaries>>
           ELSE LET m == found[1]
                    target_date == DateOf(meals[m].timestamp)
                    totals == CommitTotals(food_items, food_nutrients, m)
                IN  /\ meals' = [x \in DOMAIN meals |->
                                    IF x \in awaiting
                                    THEN [meals[x] EXCEPT !.meal_type = meal_type,
                                                          !.processing_status = "completed"]
                                    ELSE meals[x]]
                    /\ daily_summaries' =
                          update_daily_summary(daily_summaries, user_id, target_date, totals)
                    /\ lastOp' = [op |-> "complete_meal_processing", user |-> user_id,
                                  success |-> ledger_ok, raised |-> ~ledger_ok,
                                  meal |-> m, meal_type |-> meal_type, date |-> target_date,
                                  before |-> SummaryOrZero(daily_summaries, user_id, target_date)]
        /\ UNCHANGED <<users, food_items, food_nutrients, next_meal_id, next_food_id, now, inflight>>

\* complete_meal_processing(user_id, meal_type).  It commits the status write
\* (line 290) and then calls update_daily_summary, which commits the ledger
\* write; ledger_ok is FALSE when the second transaction fails (the query or
\* the commit in update_daily_summary raises) and the call ends by raising.
CompleteMealProcessing(user_id, meal_type, ledger_ok) ==
    LET found == LatestMeal([m \in {x \in DOMAIN meals : meals[x].meal_type = "pending"} |-> meals[m]],
                            user_id, {"analyzed"})
    IN  /\ user_id \in DOMAIN users
        /\ IF found = None
           THEN /\ lastOp' = [op |-> "complete_meal_processing", user |-> user_id,
                              success |-> FALSE, raised |-> FALSE]
                /\ UNCHANGED <<meals, daily_summaries>>
           ELSE LET m == found[1]
                    target_date == DateOf(meals[m].timestamp)
                    totals == CommitTotals(food_items, food_nutrients, m)
                IN  /\ meals' = [meals EXCEPT ![m].meal_type = meal_type,
                                              ![m].processing_status = "completed"]
                    /\ daily_summaries' =
                          IF ledger_ok
                          THEN update_daily_summary(daily_summaries, user_id, target_date, totals)
                          ELSE daily_summaries
                    /\ lastOp' = [op |-> "complete_meal_processing", user |-> user_id,
                                  success |-> ledger_ok, raised |-> ~ledger_ok,
                                  meal |-> m, meal_type |-> meal_type, date |-> target_date,
                                  before |-> SummaryOrZero(daily_summaries, user_id, target_date)]
        /\ UNCHANGED <<users, food_items, food_nutrients, next_meal_id, next_food_id, now, inflight>>

\* ------------------------------------------------------ cancel_pending_meal
CancelPendingMeal(user_id) ==
    LET found == LatestMeal(meals, user_id, {"pending", "analyzed"})
    IN  /\ user_id \in DOMAIN users
        /\ IF found = None
           THEN /\ lastOp' = [op |-> "cancel_pending_meal", user |-> user_id,
                              success |-> FALSE, message |-> "No pending meal to cancel"]
                /\ UNCHANGED <<meals, food_items, food_nutrients>>
           ELSE LET m == found[1]
                IN  /\ meals' = Without(meals, {m})
                    /\ food_items' = CascadeItems(food_items, m)
                    /\ food_nutrients' = CascadeNutrients(food_items, food_nutrients, m)
                    /\ lastOp' = [op |-> "cancel_pending_meal", user |-> user_id,
                                  success |-> TRUE, message |-> "Meal logging cancelled",
                                  meal |-> m, status |-> meals[m].processing_status]
        /\ UNCHANGED <<users, daily_summaries, next_meal_id, next_food_id, now, inflight>>

\* --------------------------------------------------------- delete_last_meal
\* The subtraction without its floor at zero; the variant C4 must tell from
\* ReverseSummary.
ReverseSummaryUnclamped(tbl, user_id, meal_date, t) ==
    IF <<user_id, meal_date>> \notin DOMAIN tbl THEN tbl
    ELSE [tbl EXCEPT ![<<user_id, meal_date>>] =
            [@ EXCEPT !.total_calories = @ - t.calories,
                      !.total_protein  = @ - t.protein,
                      !.total_carbs    = @ - t.carbs,
                      !.total_fat      = @ - t.fat,
                      !.meal_count     = @ - 1]]

\* The subtraction of delete_last_meal (lines 306-311): calories, protein,
\* carbs and fat are reduced by the meal's totals and meal_count by one, each
\* floored at zero; a missing summary row is left missing.
ReverseSummary(tbl, user_id, meal_date, t) ==
    IF <<user_id, meal_date>> \notin DOMAIN tbl THEN tbl
    ELSE [tbl EXCEPT ![<<user_id, meal_date>>] =
            [@ EXCEPT !.total_calories = Max(0, @ - t.calories),
                      !.total_protein  = Max(0, @ - t.protein),
                      !.total_carbs    = Max(0, @ - t.carbs),
                      !.total_fat      = Max(0, @ - t.fat),
                      !.meal_count     = Max(0, @ - 1)]]

\* The meal totals delete_last_meal computes (lines 268-286).
DeleteTotals(fi, fn, meal_id) ==
    [calories |-> MealTotal(fi, fn, meal_id, "calories"),
     protein  |-> MealTotal(fi, fn, meal_id, "protein_g"),
     carbs    |-> MealTotal(fi, fn, meal_id, "carbs_g"),
     fat      |-> MealTotal(fi, fn, meal_id, "fat_g")]

\* A delete that leaves last_meal_id as it is; the variant C18 must tell from
\* RepointLastMeal.
KeepLastMeal(tbl_users, tbl_meals, user_id, last_meal) == tbl_users

\* The user's last_meal_id after delete_last_meal removes last_meal.
RepointLastMeal(tbl_users, tbl_meals, user_id, last_meal) ==
    IF tbl_users[user_id].last_meal_id = Some(last_meal)
    THEN [tbl_users EXCEPT ![user_id].last_meal_id =
             LatestMeal(Without(tbl_meals, {last_meal}), user_id, {"completed"})]
    ELSE tbl_users

DeleteLastMeal(user_id) ==
    LET found == LatestMeal(meals, user_id, {"completed"})
    IN  /\ user_id \in DOMAIN users
        /\ IF found = None
           THEN /\ lastOp' = [op |-> "delete_last_meal", user |-> user_id,
                              success |-> FALSE, message |-> "No meals to delete"]
                /\ UNCHANGED <<users, meals, food_items, food_nutrients, daily_summaries>>
           ELSE LET m == found[1]
                    meal_date == DateOf(meals[m].timestamp)
                    totals == DeleteTotals(food_items, food_nutrients, m)
                IN  /\ daily_summaries' = ReverseSummary(daily_summaries, user_id, meal_date, totals)
                    /\ users' = RepointLastMeal(users, meals, user_id, m)
                    /\ meals' = Without(meals, {m})
                    /\ food_items' = CascadeItems(food_items, m)
                    /\ food_nutrients' = CascadeNutrients(food_items, food_nutrients, m)
                    /\ lastOp' = [op |-> "delete_last_meal", user |-> user_id,
                                  success |-> TRUE, message |-> "Meal deleted successfully",
                                  meal |-> m, date |-> meal_date, totals |-> totals,
                                  before |-> SummaryOrZero(daily_summaries, user_id, meal_date),
                                  last_meal_before |-> users[user_id].last_meal_id]
        /\ UNCHANGED <<next_meal_id, next_food_id, now, inflight>>

\* A text message that classify_question routes to handle_add_restriction,
\* received through the webhook while the user has no meal awaiting its category.
AddRestriction(phone_number, message_text) ==
    /\ message_text \in AddRestrictionMessages
    /\ LatestMeal([m \in {x \in DOMAIN meals : meals[x].meal_type = "pending"} |-> meals[m]],
                  phone_number, {"analyzed"}) = None
    /\ LET created == get_or_create_user(users, phone_number)
       IN  /\ users' = [created EXCEPT ![phone_number].dietary_restrictions =
                           AddedRestriction(@, message_text)]
           /\ lastOp' = [op |-> "add_restriction", user |-> phone_number,
                         message_text |-> message_text,
                         before |-> created[phone_number].dietary_restrictions]
    /\ UNCHANGED <<meals, food_items, food_nutrients, daily_summaries,
                   next_meal_id, next_food_id, now, inflight>>

\* ------------------------------------------------- webhook, text messages
\* A reader of category replies that takes any text without a category word as
\* a snack; the variant C11 must tell from extract_meal_type_from_text.
extract_meal_type_or_snack(text) ==
    IF text = "" THEN None
    ELSE IF Contains("breakfast", Lower(text)) THEN Some("breakfast")
    ELSE IF Contains("lunch", Lower(text)) THEN Some("lunch")
    ELSE IF Contains("dinner", Lower(text)) THEN Some("dinner")
    ELSE Some("snack")

\* MealProcessor.extract_meal_type_from_text: None, or Some(meal type).
extract_meal_type_from_text(text) ==
    IF text = "" THEN None
    ELSE IF Contains("breakfast", Lower(text)) \/ Contains("morning", Lower(text))
    THEN Some("breakfast")
    ELSE IF Contains("lunch", Lower(text)) \/ Contains("noon", Lower(text))
    THEN Some("lunch")
    ELSE IF \/ Contains("dinner", Lower(text)) \/ Contains("supper", Lower(text))
            \/ Contains("evening", Lower(text))
    THEN Some("dinner")
    ELSE IF Contains("snack", Lower(text)) THEN Some("snack")
    ELSE None

\* ChatbotService.classify_question, as far as the handler it selects can write
\* to the database: cancel_meal and delete_meal (lines 32-46) and
\* add_restriction, remove_restriction and restrictions_management (lines
\* 176-194); and meal_details (lines 47-49).  The branches in between (lines
\* 51-157) select handlers that only read, except goal_setting, which needs a
\* number together with 'goal', 'i want', 'target', 'aim for' or 'trying to';
\* they look for words ('goal', 'progress', 'compare', 'vs', 'today', 'cal',
\* 'fat', 'carb', 'protein', ...) that none of the messages sent here holds.
\* Every other outcome is given as "other".
classify_question(message_text) ==
    IF Strip(Lower(message_text)) \in {"cancel", "stop"} THEN "cancel_meal"
    ELSE IF Strip(Lower(message_text)) \in {"delete", "remove", "undo"} THEN "delete_meal"
    ELSE IF /\ \E dk \in {"delete", "remove", "undo", "cancel"} : Contains(dk, Lower(message_text))
            /\ \E tk \in {"last", "recent", "previous", "latest"} : Contains(tk, Lower(message_text))
    THEN "delete_meal"
    ELSE IF Strip(Lower(message_text)) \in {"detail", "details", "list", "breakdown", "full"}
    THEN "meal_details"
    ELSE IF IsViewRestrictions(message_text) THEN "other"
    ELSE IF IsAddRestriction(message_text) THEN "add_restriction"
    ELSE IF IsRemoveRestriction(message_text) THEN "remove_restriction"
    ELSE IF IsSetRestrictions(message_text) THEN "restrictions_management"
    ELSE "other"

\* The text messages sent to the webhook.
Texts == {"xyz", "breakfast", "2", "cancel", "Change to Lunch", "delete"}

\* The text messages sent while the delivery of the answers is studied.
WebhookTexts == {"breakfast", "xyz", "detail"}

\* extract_meal_type_from_text and classify_question computed once per text.
TextRows ==
    {[text |-> t, meal_type |-> extract_meal_type_from_text(t),
      change_to |-> Contains("change to", Lower(t)),
      question_type |-> classify_question(t)] : t \in Texts \cup WebhookTexts}
TextTable == [t \in Texts \cup WebhookTexts |-> CHOOSE row \in TextRows : row.text = t]
TextRow(message_text) == TextTable[message_text]

\* The meal awaiting its category: the pending_meal query of whatsapp_webhook,
\* which complete_meal_processing repeats.
AwaitingMeal(tbl, user_id) ==
    LatestMeal([m \in {x \in DOMAIN tbl : tbl[x].meal_type = "pending"} |-> tbl[m]],
               user_id, {"analyzed"})

\* The meal handle_meal_details renders (route_to_handler lines 324-329 and
\* handle_meal_details lines 390-401): the meal of the user's last_meal_id when
\* that is set and the meal is committed, else the user's most recent committed
\* meal; None when there is none.
MealOfDetails(tbl_users, tbl_meals, user_id) ==
    IF tbl_users[user_id].last_meal_id # None
    THEN IF /\ tbl_users[user_id].last_meal_id[1] \in DOMAIN tbl_meals
            /\ tbl_meals[tbl_users[user_id].last_meal_id[1]].user_id = user_id
            /\ tbl_meals[tbl_users[user_id].last_meal_id[1]].processing_status = "completed"
         THEN tbl_users[user_id].last_meal_id
         ELSE None
    ELSE LatestMeal(tbl_meals, user_id, {"completed"})

\* The text branch of whatsapp_webhook (lines 81-145) for Body = message_text:
\* a reply to the category prompt when a meal of the sender awaits its category,
\* else a 'change to' request, else a question for the chatbot.  `out` holds the
\* tables after the request, the branch taken, the message sent back and the
\* meal the request found; `reprompted` is the text this request follows when
\* that text was answered by the category re-prompt.  Every answer is sent
\* after the request's commit and the result of the send is not looked at;
\* `delivered` tells whether Twilio accepted it.
TextMessageSent(phone_number, message_text, delivered) ==
    LET created == get_or_create_user(users, phone_number)
        row == TextRow(message_text)
        sent == send_message(delivered)
        pending_meal == AwaitingMeal(meals, phone_number)
        last_completed == LatestMeal(meals, phone_number, {"completed"})
        details_meal == MealOfDetails(created, meals, phone_number)
        to_cancel == LatestMeal(meals, phone_number, {"pending", "analyzed"})
        same == [users |-> created, meals |-> meals, food_items |-> food_items,
                 food_nutrients |-> food_nutrients, daily_summaries |-> daily_summaries,
                 branch |-> "", reply |-> "", meal |-> None]
        out ==
            IF pending_meal # None
            THEN IF row.meal_type # None
                 THEN [same EXCEPT
                         !.meals = [meals EXCEPT ![pending_meal[1]].meal_type = row.meal_type[1],
                                                 ![pending_meal[1]].processing_status = "completed"],
                         !.daily_summaries =
                             update_daily_summary(daily_summaries, phone_number,
                                 DateOf(meals[pending_meal[1]].timestamp),
                                 CommitTotals(food_items, food_nutrients, pending_meal[1])),
                         !.branch = "category_reply", !.reply = "confirmation",
                         !.meal = pending_meal]
                 ELSE [same EXCEPT !.branch = "category_reply", !.reply = "category_reprompt",
                                   !.meal = pending_meal]
            ELSE IF row.change_to
            THEN IF row.meal_type = None
                 THEN [same EXCEPT !.branch = "change_to", !.reply = "Please specify"]
                 ELSE IF last_completed = None
                 THEN [same EXCEPT !.branch = "change_to",
                                   !.reply = "No recent meal found to update."]
                 ELSE [same EXCEPT
                         !.meals = [meals EXCEPT ![last_completed[1]].meal_type = row.meal_type[1]],
                         !.branch = "change_to", !.reply = "Updated!",
                         !.meal = last_completed]
            ELSE IF row.question_type = "cancel_meal"
            THEN IF to_cancel = None
                 THEN [same EXCEPT !.branch = "cancel_meal", !.reply = "No pending meal to cancel"]
                 ELSE [same EXCEPT
                         !.meals = Without(meals, {to_cancel[1]}),
                         !.food_items = CascadeItems(food_items, to_cancel[1]),
                         !.food_nutrients = CascadeNutrients(food_items, food_nutrients, to_cancel[1]),
                         !.branch = "cancel_meal", !.reply = "Meal logging cancelled",
                         !.meal = to_cancel]
            ELSE IF row.question_type = "delete_meal"
            THEN IF last_completed = None
                 THEN [same EXCEPT !.branch = "delete_meal", !.reply = "No meals to delete"]
                 ELSE [same EXCEPT
                         !.daily_summaries =
                             ReverseSummary(daily_summaries, phone_number,
                                 DateOf(meals[last_completed[1]].timestamp),
                                 DeleteTotals(food_items, food_nutrients, last_completed[1])),
                         !.users = RepointLastMeal(created, meals, phone_number, last_completed[1]),
                         !.meals = Without(meals, {last_completed[1]}),
                         !.food_items = CascadeItems(food_items, last_completed[1]),
                         !.food_nutrients = CascadeNutrients(food_items, food_nutrients, last_completed[1]),
                         !.branch = "delete_meal", !.reply = "Deleted",
                         !.meal = last_completed]
            ELSE IF row.question_type = "meal_details"
            THEN IF details_meal = None
                 THEN [same EXCEPT !.branch = "meal_details", !.reply = "No recent meals found"]
                 ELSE IF ItemsOf(food_items, details_meal[1]) = {}
                 THEN [same EXCEPT !.branch = "meal_details",
                                   !.reply = "Could not retrieve meal details"]
                 ELSE [same EXCEPT !.branch = "meal_details", !.reply = "meal_details",
                                   !.meal = details_meal]
            ELSE [same EXCEPT !.branch = "question", !.reply = "answer"]
    IN  /\ row.question_type # "add_restriction"
        /\ users' = out.users
        /\ meals' = out.meals
        /\ food_items' = out.food_items
        /\ food_nutrients' = out.food_nutrients
        /\ daily_summaries' = out.daily_summaries
        /\ lastOp' = [op |-> "text_message", user |-> phone_number, text |-> message_text,
                      awaiting |-> pending_meal, branch |-> out.branch, reply |-> out.reply,
                      meal |-> out.meal,
                      reprompted |-> IF /\ lastOp.op = "text_message"
                                        /\ lastOp.user = phone_number
                                        /\ lastOp.reply = "category_reprompt"
                                     THEN Some(lastOp.text) ELSE None,
                      delivered |-> sent.sid # None]
        /\ UNCHANGED <<next_meal_id, next_food_id, now, inflight>>

\* The same with the answer delivered.
TextMessage(phone_number, message_text) == TextMessageSent(phone_number, message_text, TRUE)

\* ------------------------------------------------------------ calorie goals
\* The Goal rows: the target_value of the user's active 'calorie_target' goal is
\* kept with the user's row, in a column calorie_goal that a user without a
\* goal does not have.  get_active_goal (meal_processor.py lines 408-418).
get_active_goal(tbl_users, user_id) ==
    IF "calorie_goal" \in DOMAIN tbl_users[user_id]
    THEN Some(tbl_users[user_id].calorie_goal) ELSE None

\* The goal part of format_meal_confirmation (lines 489-504) and of
\* handle_daily_summary (chatbot_service.py lines 553-563): with a goal the
\* percentage calories / target_value * 100 is computed, which raises
\* ZeroDivisionError on a target of 0.
GoalPercentage(calories, goal) ==
    IF goal = None THEN [raised |-> FALSE, percentage |-> None]
    ELSE IF goal[1] = 0 THEN [raised |-> TRUE, percentage |-> None]
    ELSE [raised |-> FALSE, percentage |-> Some((calories * 100) \div goal[1])]
\* The same with the guard handle_goal_progress has (line 648).
GoalPercentageGuarded(calories, goal) ==
    IF goal = None THEN [raised |-> FALSE, percentage |-> None]
    ELSE IF goal[1] > 0 THEN [raised |-> FALSE, percentage |-> Some((calories * 100) \div goal[1])]
    ELSE [raised |-> FALSE, percentage |-> Some(0)]

\* 'My goal is <target> calories' sent while no meal awaits its category:
\* handle_goal_setting (chatbot_service.py lines 457-498) deactivates the old
\* calorie goal and stores the new one.
SetGoal(phone_number, target) ==
    /\ AwaitingMeal(meals, phone_number) = None
    /\ LET created == get_or_create_user(users, phone_number)
       IN  users' = [created EXCEPT ![phone_number] =
                        [dietary_restrictions |-> @.dietary_restrictions,
                         last_meal_id |-> @.last_meal_id,
                         calorie_goal |-> target]]
    /\ lastOp' = [op |-> "goal_setting", user |-> phone_number, target |-> target,
                  message |-> Some("Goal set!")]
    /\ UNCHANGED <<meals, food_items, food_nutrients, daily_summaries,
                   next_meal_id, next_food_id, now, inflight>>

\* A goal-progress question ('my progress') sent while no meal awaits its
\* category: handle_goal_progress (lines 602-712).
GoalProgress(phone_number) ==
    /\ AwaitingMeal(meals, phone_number) = None
    /\ users' = get_or_create_user(users, phone_number)
    /\ LET goal == get_active_goal(users', phone_number)
           today == <<phone_number, DateOf(now)>>
           progress == GoalPercentageGuarded(SummaryOrZero(daily_summaries, phone_number, DateOf(now)).total_calories, goal)
       IN  lastOp' = [op |-> "goal_progress", user |-> phone_number, goal |-> goal,
                      raised |-> progress.raised,
                      message |-> IF goal = None THEN Some("You haven't set any goals yet.")
                                  ELSE IF today \notin DOMAIN daily_summaries
                                  THEN Some("No meals logged today.")
                                  ELSE Some("progress")]
    /\ UNCHANGED <<meals, food_items, food_nutrients, daily_summaries,
                   next_meal_id, next_food_id, now, inflight>>

\* A daily-summary question ('today summary') sent while no meal awaits its
\* category: handle_daily_summary (lines 519-565); an error it raises is
\* answered by route_to_handler with its apology (lines 344-346).
DailySummaryQuestion(phone_number) ==
    /\ AwaitingMeal(meals, phone_number) = None
    /\ users' = get_or_create_user(users, phone_number)
    /\ LET goal == get_active_goal(users', phone_number)
           summary == SummaryOrZero(daily_summaries, phone_number, DateOf(now))
           progress == GoalPercentage(summary.total_calories, goal)
       IN  lastOp' = [op |-> "daily_summary", user |-> phone_number, goal |-> goal,
                      raised |-> (summary.meal_count # 0 /\ progress.raised),
                      message |-> IF summary.meal_count = 0
                                  THEN Some("You haven't logged any meals yet today.")
                                  ELSE IF progress.raised
                                  THEN Some("Sorry, I encountered an error. Please try again.")
                                  ELSE Some("summary")]
    /\ UNCHANGED <<meals, food_items, food_nutrients, daily_summaries,
                   next_meal_id, next_food_id, now, inflight>>

\* A category reply to the prompt of the sender's awaiting meal (app.py lines
\* 87-106): complete_meal_processing commits the status and the ledger and
\* then composes the confirmation; an error raised there leaves the webhook
\* through its outer handler (lines 165-167), which sends nothing.
CategoryReply(phone_number, meal_type) ==
    LET pending_meal == AwaitingMeal(meals, phone_number)
        m == pending_meal[1]
        target_date == DateOf(meals[m].timestamp)
        goal == get_active_goal(users, phone_number)
        written == update_daily_summary(daily_summaries, phone_number, target_date,
                                        CommitTotals(food_items, food_nutrients, m))
        confirmation == GoalPercentage(SummaryOrZero(written, phone_number, DateOf(now)).total_calories, goal)
    IN  /\ phone_number \in DOMAIN users
        /\ pending_meal # None
        /\ meals' = [meals EXCEPT ![m].meal_type = meal_type,
                                  ![m].processing_status = "completed"]
        /\ daily_summaries' = written
        /\ lastOp' = [op |-> "category_reply", user |-> phone_number, meal |-> m,
                      date |-> target_date, goal |-> goal,
                      before |-> SummaryOrZero(daily_summaries, phone_number, target_date),
                      raised |-> confirmation.raised,
                      message |-> IF confirmation.raised THEN None ELSE Some("confirmation")]
        /\ UNCHANGED <<users, food_items, food_nutrients, next_meal_id, next_food_id, now, inflight>>

\* ------------------------------------------- get_nutrition_data by itself
\* Quantities per 100 g are in tenths of the source's unit (3.6 g is 36) and
\* portions in grams, so that a value scaled by portion_grams / 100 is the
\* product of the two, in thousandths of the unit.

\* USDAService.fallback_foods, per 100 g.
fallback_foods ==
    << [key |-> "coffee",          per100 |-> [calories |-> 20, protein_g |-> 3, carbs_g |-> 0, fat_g |-> 0]],
       [key |-> "black coffee",    per100 |-> [calories |-> 20, protein_g |-> 3, carbs_g |-> 0, fat_g |-> 0]],
       [key |-> "water",           per100 |-> [calories |-> 0, protein_g |-> 0, carbs_g |-> 0, fat_g |-> 0]],
       [key |-> "tea",             per100 |-> [calories |-> 20, protein_g |-> 0, carbs_g |-> 7, fat_g |-> 0]],
       [key |-> "green tea",       per100 |-> [calories |-> 20, protein_g |-> 5, carbs_g |-> 0, fat_g |-> 0]],
       [key |-> "diet soda",       per100 |-> [calories |-> 0, protein_g |-> 0, carbs_g |-> 0, fat_g |-> 0]],
       [key |-> "sparkling water", per100 |-> [calories |-> 0, protein_g |-> 0, carbs_g |-> 0, fat_g |-> 0]] >>

\* The four values of a per-100 g record scaled to the portion; the result has
\* no fiber_g, sugar_g or sodium_mg key.
ScaleBase(per100, portion_grams) ==
    EstimatedNutrition(per100.calories * portion_grams, per100.protein_g * portion_grams,
                       per100.carbs_g * portion_grams, per100.fat_g * portion_grams)

\* USDAService._check_fallback: None, or Some(scaled fallback values).
check_fallback(food_name, portion_grams) ==
    LET hits == SelectSeq(fallback_foods, LAMBDA f : f.key = Lower(food_name))
    IN  IF Len(hits) = 0 THEN None ELSE Some(ScaleBase(hits[1].per100, portion_grams))

\* The categories of _estimate_nutrition in the order they are tried, each with
\* its words and its per-100 g base.
estimate_categories ==
    << [words |-> <<"chicken", "turkey", "lean meat">>,
        per100 |-> [calories |-> 1650, protein_g |-> 310, carbs_g |-> 0, fat_g |-> 36]],
       [words |-> <<"beef", "steak", "pork">>,
        per100 |-> [calories |-> 2500, protein_g |-> 260, carbs_g |-> 0, fat_g |-> 150]],
       [words |-> <<"fish", "salmon", "tuna">>,
        per100 |-> [calories |-> 2060, protein_g |-> 220, carbs_g |-> 0, fat_g |-> 120]],
       [words |-> <<"rice", "pasta", "noodles">>,
        per100 |-> [calories |-> 1300, protein_g |-> 27, carbs_g |-> 280, fat_g |-> 3]],
       [words |-> <<"bread", "toast">>,
        per100 |-> [calories |-> 2650, protein_g |-> 90, carbs_g |-> 490, fat_g |-> 32]],
       [words |-> <<"egg">>,
        per100 |-> [calories |-> 1550, protein_g |-> 130, carbs_g |-> 11, fat_g |-> 110]],
       [words |-> <<"vegetable", "broccoli", "carrot", "lettuce", "salad">>,
        per100 |-> [calories |-> 350, protein_g |-> 28, carbs_g |-> 70, fat_g |-> 4]],
       [words |-> <<"fruit", "apple", "banana", "orange">>,
        per100 |-> [calories |-> 520, protein_g |-> 3, carbs_g |-> 140, fat_g |-> 2]] >>
\* The generic estimate of its last branch.
generic_estimate == [calories |-> 1500, protein_g |-> 50, carbs_g |-> 200, fat_g |-> 50]

\* USDAService._estimate_nutrition: the base of the first category one of
\* whose words occurs in the name, else the generic one, scaled to the portion.
estimate_nutrition(food_name, portion_grams) ==
    LET hits == SelectSeq(estimate_categories,
                          LAMBDA c : \E w \in Range(c.words) : Contains(w, Lower(food_name)))
    IN  ScaleBase(IF Len(hits) = 0 THEN generic_estimate ELSE hits[1].per100, portion_grams)

\* USDAService._extract_nutrients: the seven main nutrients of the best match
\* scaled to the portion.
extract_nutrients(food_data, portion_grams) ==
    UsdaNutrition(food_data.calories * portion_grams, food_data.protein_g * portion_grams,
                  food_data.carbs_g * portion_grams, food_data.fat_g * portion_grams,
                  food_data.fiber_g * portion_grams, food_data.sugar_g * portion_grams,
                  food_data.sodium_mg * portion_grams)

\* A lookup that answers None when the database has no match; the variant C25
\* must tell from get_nutrition_data.
get_nutrition_data_or_none(food_name, portion_grams, searches) ==
    LET fallback == check_fallback(food_name, portion_grams)
        search_results == IF searches[1] # None THEN searches[1] ELSE searches[2]
    IN  IF fallback # None THEN fallback
        ELSE IF search_results = None THEN None
        ELSE IF ~search_results[1].well_formed THEN None
        ELSE Some(extract_nutrients(search_results[1].per100, portion_grams))

\* USDAService.get_nutrition_data(food_name, portion_grams), `searches` being
\* what _search_food answers to the name and to the generalized name: None (no
\* food found, or the request raised, which _search_food turns into None), or
\* Some(best match).  A best match that is not well formed makes
\* _extract_nutrients raise, which the except branch answers by the estimate.
\* The result is Some(dictionary): the function has no path that returns None.
get_nutrition_data(food_name, portion_grams, searches) ==
    LET fallback == check_fallback(food_name, portion_grams)
        search_results == IF searches[1] # None THEN searches[1] ELSE searches[2]
    IN  IF fallback # None THEN fallback
        ELSE IF search_results = None THEN Some(estimate_nutrition(food_name, portion_grams))
        ELSE IF ~search_results[1].well_formed
        THEN Some(estimate_nutrition(food_name, portion_grams))
        ELSE Some(extract_nutrients(search_results[1].per100, portion_grams))

\* The names and portions looked up, and the answers of the USDA service.
LookupNames ==
    {"coffee", "Green Tea", "grilled chicken", "rice", "Garden Salad", "steak", "xyz"}
LookupPortions == {0, 50, 100, 250}
UsdaMatch ==
    [well_formed |-> TRUE,
     per100 |-> [calories |-> 520, protein_g |-> 3, carbs_g |-> 140, fat_g |-> 2,
                 fiber_g |-> 24, sugar_g |-> 100, sodium_mg |-> 10]]
UsdaMalformed == [well_formed |-> FALSE, per100 |-> <<>>]
LookupSearches ==
    { <<None, None>>, <<Some(UsdaMatch), None>>, <<None, Some(UsdaMatch)>>,
      <<Some(UsdaMalformed), None>> }

\* One pass of the loop of process_meal (lines 118-132) for one candidate: the
\* lookup, and the FoodItem written when the answer is truthy.
LookupFood(food_name, portion_grams, searches) ==
    /\ lastOp.op = "none"
    /\ lastOp' = [op |-> "get_nutrition_data", food_name |-> food_name,
                  portion_grams |-> portion_grams, searches |-> searches,
                  nutrition |-> get_nutrition_data(food_name, portion_grams, searches),
                  persisted |-> get_nutrition_data(food_name, portion_grams, searches) # None]
    /\ UNCHANGED <<users, meals, food_items, food_nutrients, daily_summaries,
                   next_meal_id, next_food_id, now, inflight>>

\* ------------------------------------------------ validate_meal by itself
\* The foods validate_meal is given, as process_meal makes them: recognized
\* names and ingredient lists passed through detect_ingredients.
ScreenedFoods ==
    WithDetection(<< [name |-> "Garden Salad", ingredients |-> <<"lettuce", "tomato">>],
                     [name |-> "shrimp pasta", ingredients |-> <<>>],
                     [name |-> "Cheese Omelette", ingredients |-> <<"cheddar", "eggs">>],
                     [name |-> "bacon burger", ingredients |-> <<"bun">>] >>)
\* The meals: every list of at most two of them.
ScreenedMeals ==
    {<<>>} \cup {<<ScreenedFoods[i]>> : i \in 1..Len(ScreenedFoods)}
           \cup {<<ScreenedFoods[i], ScreenedFoods[j]>> : i, j \in 1..Len(ScreenedFoods)}
\* The stored restriction strings the restrictions are parsed from.
ScreenedRestrictions ==
    {"", "dairy", "gluten,vegetarian", "shellfish,kosher", "Vegan", "eggs, halal ,pork"}

\* One validate_meal call on a meal and the parsed restrictions.
ValidateMeal(foods, restrictions_string) ==
    /\ lastOp.op = "none"
    /\ lastOp' = [op |-> "validate_meal", foods |-> foods,
                  user_restrictions |-> parse_user_restrictions(restrictions_string),
                  result |-> validate_meal(foods, parse_user_restrictions(restrictions_string))]
    /\ UNCHANGED <<users, meals, food_items, food_nutrients, daily_summaries,
                   next_meal_id, next_food_id, now, inflight>>

\* ------------------------------------------------ the alert of a blocked meal
\* AllergenService.format_alert_message(validation_result): None when there is
\* no violation, else Some(the lines of the message); the pictographs before
\* the headings and the safe items are left out, a bullet is written '-'.
\* message.strip() removes the empty lines the message would end with.
format_alert_message(validation_result) ==
    LET violations == validation_result.violations
        safe_foods == validation_result.safe_foods
        allergen_violations == SelectSeq(violations, LAMBDA v : v.severity = "allergen")
        preference_violations == SelectSeq(violations, LAMBDA v : v.severity = "preference")
        Bullet(v) == "- " \o v.food_name \o ": Contains " \o v.allergen_display
                          \o " (" \o v.ingredient \o ")"
        more == IF Len(safe_foods) = 4 THEN " +1 more"
                ELSE IF Len(safe_foods) = 5 THEN " +2 more"
                ELSE IF Len(safe_foods) = 6 THEN " +3 more" ELSE ""
        allergen_part == IF Len(allergen_violations) = 0 THEN <<>>
                         ELSE <<"ALLERGEN WARNING:">>
                              \o [i \in 1..Len(allergen_violations) |-> Bullet(allergen_violations[i])]
                              \o <<"">>
        preference_part == IF Len(preference_violations) = 0 THEN <<>>
                           ELSE <<"DIETARY PREFERENCE:">>
                                \o [i \in 1..Len(preference_violations) |-> Bullet(preference_violations[i])]
                                \o <<"">>
        safe_part == IF Len(safe_foods) = 0 THEN <<>>
                     ELSE <<"Safe items: "
                            \o Join(SubSeq(safe_foods, 1, IF Len(safe_foods) > 3 THEN 3 ELSE Len(safe_foods)), ", ")
                            \o more>>
        message == <<"DIETARY ALERT", "">> \o allergen_part \o preference_part \o safe_part
    IN  IF ~validation_result.has_violations THEN None
        ELSE Some(IF message[Len(message)] = "" THEN SubSeq(message, 1, Len(message) - 1)
                  ELSE message)

\* The foods of the meals an alert is made for: three that hold an allergen
\* and four side dishes that hold none.
AlertFoods ==
    WithDetection(<< [name |-> "shrimp pasta", ingredients |-> <<>>],
                     [name |-> "Cheese Omelette", ingredients |-> <<"cheddar", "eggs">>],
                     [name |-> "Garden Salad", ingredients |-> <<"lettuce", "tomato">>],
                     [name |-> "steamed rice", ingredients |-> <<>>],
                     [name |-> "apple", ingredients |-> <<>>],
                     [name |-> "broccoli", ingredients |-> <<>>],
                     [name |-> "carrots", ingredients |-> <<>>] >>)
\* The meals: every run of consecutive foods of the list, up to six foods.
AlertMeals ==
    {SubSeq(AlertFoods, i, j) : i \in 1..Len(AlertFoods), j \in 0..Len(AlertFoods)}
        \ {AlertFoods}

\* The gate of process_meal on a meal (lines 79-101): validate_meal, and for a
\* blocked meal the alert, format_alert_message followed by the lines
\* process_meal adds to it.
SendAlert(foods, restrictions_string) ==
    /\ lastOp.op = "none"
    /\ LET user_restrictions == parse_user_restrictions(restrictions_string)
           validation_result == validate_meal(foods, user_restrictions)
           alert_message == format_alert_message(validation_result)
       IN  lastOp' = [op |-> "send_alert", foods |-> foods,
                      user_restrictions |-> user_restrictions,
                      result |-> validation_result,
                      blocked |-> validation_result.has_violations,
                      alert |-> IF alert_message = None THEN <<>>
                                ELSE alert_message[1] \o <<"", "MEAL NOT LOGGED">>]
    /\ UNCHANGED <<users, meals, food_items, food_nutrients, daily_summaries,
                   next_meal_id, next_food_id, now, inflight>>

\* ------------------------------------------------ the full-detail rendering
\* MealProcessor.format_meal_details(food_items, totals..., meal_type): the
\* list of messages, five items to a message.  Each message is given by its
\* heading numbers, the names of the items written in it, in order, and
\* whether the MEAL TOTAL and TODAY'S TOTAL blocks are in it.  The item lines
\* format the seven main columns with ':.0f', which raises on a NULL column
\* (lines 546-548); the totals were summed with 'or 0' and never raise.
format_meal_details(items, meal_type) ==
    LET ITEMS_PER_MESSAGE == 5
        total_batches == (Len(items) + ITEMS_PER_MESSAGE - 1) \div ITEMS_PER_MESSAGE
        Batch(batch_num) ==
            SubSeq(items, batch_num * ITEMS_PER_MESSAGE + 1,
                   IF batch_num * ITEMS_PER_MESSAGE + ITEMS_PER_MESSAGE < Len(items)
                   THEN batch_num * ITEMS_PER_MESSAGE + ITEMS_PER_MESSAGE ELSE Len(items))
        FormatRaises(n) ==
            \E col \in {"calories", "protein_g", "carbs_g", "fat_g", "fiber_g", "sugar_g", "sodium_mg"} :
                n[col] = None
    IN  IF \E i \in 1..Len(items) : FormatRaises(items[i].nutrients)
        THEN [raised |-> TRUE, messages |-> <<>>]
        ELSE [raised |-> FALSE,
              messages |-> [k \in 1..total_batches |->
                  [meal_type |-> meal_type, batch_num |-> k, total_batches |-> total_batches,
                   foods |-> [j \in 1..Len(Batch(k - 1)) |-> Batch(k - 1)[j].name],
                   totals |-> (k - 1 = total_batches - 1)]]]

\* The names of the foods of the meals rendered, and the meals: the first n
\* foods, all with a USDA record or one of them (at place e) with the estimate
\* _estimate_nutrition gives when the search finds nothing, which process_meal
\* stores with fiber_g, sugar_g and sodium_mg NULL (lines 143-145).
DetailFoodNames ==
    <<"oatmeal", "banana", "yogurt", "toast", "egg", "bacon", "juice", "apple",
      "rice", "chicken", "broccoli">>
DetailMeal(n, e) ==
    [i \in 1..n |->
        [name |-> DetailFoodNames[i],
         nutrients |-> IF i = e THEN EstimatedNutrition(2, 1, 1, 1)
                       ELSE UsdaNutrition(2, 1, 1, 0, 1, 2, 3)]]

\* get_meal_details on a committed meal that holds the first n foods (lines
\* 420-471), as handle_meal_details calls it; route_to_handler answers an
\* error raised by it with its apology (chatbot_service.py lines 344-346).
GetMealDetails(n, e, meal_type) ==
    /\ lastOp.op = "none"
    /\ e <= n
    /\ lastOp' = [op |-> "get_meal_details", items |-> DetailMeal(n, e),
                  meal_type |-> meal_type,
                  raised |-> format_meal_details(DetailMeal(n, e), meal_type).raised,
                  messages |-> format_meal_details(DetailMeal(n, e), meal_type).messages]
    /\ UNCHANGED <<users, meals, food_items, food_nutrients, daily_summaries,
                   next_meal_id, next_food_id, now, inflight>>

\* ------------------------------------------------------- last_meal_id
\* No request handler stores a meal in User.last_meal_id; the column is given a
\* value the way test_5_delete_updates_last_meal_id does it (lines 253-255):
\* the id of the user's most recent committed meal is written and committed.
SetLastMeal(user_id) ==
    LET found == LatestMeal(meals, user_id, {"completed"})
    IN  /\ user_id \in DOMAIN users
        /\ found # None
        /\ users[user_id].last_meal_id # found
        /\ users' = [users EXCEPT ![user_id].last_meal_id = found]
        /\ lastOp' = [op |-> "set_last_meal", user |-> user_id, meal |-> found[1]]
        /\ UNCHANGED <<meals, food_items, food_nutrients, daily_summaries,
                       next_meal_id, next_food_id, now, inflight>>

\* --------------------------------------------- failing persistence
\* A session that keeps what was flushed when its commit fails; the variant
\* C34 must tell from session_rollback.
session_keeps_flushed(before, written) ==
    [before EXCEPT !.daily_summaries = written.daily_summaries, !.users = written.users]
\* db.session.rollback() in the except branches of delete_last_meal (line 346)
\* and cancel_pending_meal (line 228): the tables are those before the
\* transaction, whatever it had written.
session_rollback(before, written) == before

\* delete_last_meal when the persistence fails (the flush or the commit of
\* lines 299-328 raises): the except branch rolls back and returns
\* success False with 'Error deleting meal'.
DeleteLastMealFailing(user_id) ==
    LET found == LatestMeal(meals, user_id, {"completed"})
        m == found[1]
        meal_date == DateOf(meals[m].timestamp)
        before == [users |-> users, meals |-> meals, food_items |-> food_items,
                   food_nutrients |-> food_nutrients, daily_summaries |-> daily_summaries]
        written == [users |-> RepointLastMeal(users, meals, user_id, m),
                    meals |-> Without(meals, {m}),
                    food_items |-> CascadeItems(food_items, m),
                    food_nutrients |-> CascadeNutrients(food_items, food_nutrients, m),
                    daily_summaries |-> ReverseSummary(daily_summaries, user_id, meal_date,
                                            DeleteTotals(food_items, food_nutrients, m))]
        after == session_rollback(before, written)
    IN  /\ user_id \in DOMAIN users
        /\ found # None
        /\ users' = after.users
        /\ meals' = after.meals
        /\ food_items' = after.food_items
        /\ food_nutrients' = after.food_nutrients
        /\ daily_summaries' = after.daily_summaries
        /\ lastOp' = [op |-> "delete_last_meal", user |-> user_id, success |-> FALSE,
                      message |-> "Error deleting meal", meal |-> m]
        /\ UNCHANGED <<next_meal_id, next_food_id, now, inflight>>

\* cancel_pending_meal when the persistence fails (the delete or the commit of
\* lines 215-218 raises): rollback, success False, 'Error cancelling meal'.
CancelPendingMealFailing(user_id) ==
    LET found == LatestMeal(meals, user_id, {"pending", "analyzed"})
        m == found[1]
        before == [users |-> users, meals |-> meals, food_items |-> food_items,
                   food_nutrients |-> food_nutrients, daily_summaries |-> daily_summaries]
        written == [before EXCEPT !.meals = Without(meals, {m}),
                                  !.food_items = CascadeItems(food_items, m),
                                  !.food_nutrients = CascadeNutrients(food_items, food_nutrients, m)]
        after == session_rollback(before, written)
    IN  /\ user_id \in DOMAIN users
        /\ found # None
        /\ users' = after.users
        /\ meals' = after.meals
        /\ food_items' = after.food_items
        /\ food_nutrients' = after.food_nutrients
        /\ daily_summaries' = after.daily_summaries
        /\ lastOp' = [op |-> "cancel_pending_meal", user |-> user_id, success |-> FALSE,
                      message |-> "Error cancelling meal", meal |-> m]
        /\ UNCHANGED <<next_meal_id, next_food_id, now, inflight>>

\* ------------------------------------------- concurrent ledger requests
\* Requests run in threads of their own, each with its own database session
\* (READ COMMITTED): a DailySummary row is read into the session by a SELECT,
\* changed in Python, and written by the UPDATE of the columns the request
\* changed when the session commits.  In the specification of concurrent
\* ledger requests `inflight` holds, for each request between its SELECT and
\* its commit, the row it read (None when there was none) and the meal totals.

\* The UPDATE a session emits for a row it read as read_row and changed to
\* computed_row: the columns it changed are set to its values, the others keep
\* what the table row current_row holds now.
WriteChanged(current_row, read_row, computed_row) ==
    [f \in DOMAIN current_row |->
        IF computed_row[f] # read_row[f] THEN computed_row[f] ELSE current_row[f]]


\* complete_meal_processing up to the SELECT of update_daily_summary (lines
\* 252-290 and 346-349): the awaiting meal is marked completed and that is
\* committed, then the summary row of its date is read.
CommitRead(user_id, meal_type) ==
    LET found == AwaitingMeal(meals, user_id)
        m == found[1]
        target_date == DateOf(meals[m].timestamp)
    IN  /\ found # None
        /\ Cardinality(inflight) < 2
        /\ meals' = [meals EXCEPT ![m].meal_type = meal_type,
                                  ![m].processing_status = "completed"]
        /\ inflight' = inflight \cup
              {[kind |-> "commit", user |-> user_id, meal |-> m, date |-> target_date,
                read |-> IF <<user_id, target_date>> \in DOMAIN daily_summaries
                         THEN Some(daily_summaries[<<user_id, target_date>>]) ELSE None,
                totals |-> CommitTotals(food_items, food_nutrients, m)]}
        /\ lastOp' = [op |-> "commit_read", user |-> user_id, meal |-> m]
        /\ UNCHANGED <<users, food_items, food_nutrients, daily_summaries,
                       next_meal_id, next_food_id, now>>

\* The rest of update_daily_summary (lines 351-376) for a request that read
\* its row: the totals are added to what was read and the session commits.  A
\* request that found no row inserts one; when another request inserted the
\* row meanwhile the INSERT breaks unique_user_date and the request raises,
\* its ledger write lost.
CommitWrite(req) ==
    LET k == <<req.user, req.date>>
        read_row == IF req.read = None THEN ZeroSummary ELSE req.read[1]
        computed == update_daily_summary(k :> read_row, req.user, req.date, req.totals)[k]
    IN  /\ req \in inflight
        /\ req.kind = "commit"
        /\ inflight' = inflight \ {req}
        /\ daily_summaries' =
              IF req.read = None
              THEN IF k \in DOMAIN daily_summaries THEN daily_summaries
                   ELSE daily_summaries @@ (k :> computed)
              ELSE [daily_summaries EXCEPT ![k] = WriteChanged(@, read_row, computed)]
        /\ lastOp' = [op |-> "commit_write", user |-> req.user, meal |-> req.meal,
                      raised |-> (req.read = None /\ k \in DOMAIN daily_summaries)]
        /\ UNCHANGED <<users, meals, food_items, food_nutrients,
                       next_meal_id, next_food_id, now>>

\* delete_last_meal up to the SELECT of the summary row (lines 250-304).
DeleteRead(user_id) ==
    LET found == LatestMeal(meals, user_id, {"completed"})
        m == found[1]
        meal_date == DateOf(meals[m].timestamp)
    IN  /\ found # None
        /\ Cardinality(inflight) < 2
        /\ inflight' = inflight \cup
              {[kind |-> "delete", user |-> user_id, meal |-> m, date |-> meal_date,
                read |-> IF <<user_id, meal_date>> \in DOMAIN daily_summaries
                         THEN Some(daily_summaries[<<user_id, meal_date>>]) ELSE None,
                totals |-> DeleteTotals(food_items, food_nutrients, m)]}
        /\ lastOp' = [op |-> "delete_read", user |-> user_id, meal |-> m]
        /\ UNCHANGED <<users, meals, food_items, food_nutrients, daily_summaries,
                       next_meal_id, next_food_id, now>>

\* The rest of delete_last_meal (lines 305-328): the subtraction from what was
\* read, the last_meal_id repoint, the delete of the meal, and the commit.
\* When another request deleted the meal meanwhile the DELETE finds no row,
\* the session raises and everything is rolled back (lines 345-353).
DeleteWrite(req) ==
    LET k == <<req.user, req.date>>
        computed == ReverseSummary(k :> req.read[1], req.user, req.date, req.totals)[k]
    IN  /\ req \in inflight
        /\ req.kind = "delete"
        /\ inflight' = inflight \ {req}
        /\ IF req.meal \in DOMAIN meals
           THEN /\ daily_summaries' =
                      IF req.read = None THEN daily_summaries
                      ELSE [daily_summaries EXCEPT ![k] = WriteChanged(@, req.read[1], computed)]
                /\ users' = RepointLastMeal(users, meals, req.user, req.meal)
                /\ meals' = Without(meals, {req.meal})
                /\ food_items' = CascadeItems(food_items, req.meal)
                /\ food_nutrients' = CascadeNutrients(food_items, food_nutrients, req.meal)
           ELSE UNCHANGED <<users, meals, food_items, food_nutrients, daily_summaries>>
        /\ lastOp' = [op |-> "delete_write", user |-> req.user, meal |-> req.meal,
                      raised |-> (req.meal \notin DOMAIN meals)]
        /\ UNCHANGED <<next_meal_id, next_food_id, now>>

\* ------------------------------------------- concurrent category replies
\* complete_meal_processing up to its query (lines 252-259), reached from the
\* webhook with a valid category (app.py lines 87-100): the request holds the
\* awaiting meal it found, other requests being handled before it goes on.
ReplyFind(user_id, meal_type) ==
    LET found == AwaitingMeal(meals, user_id)
    IN  /\ found # None
        /\ Cardinality(inflight) < 2
        /\ [kind |-> "reply", user |-> user_id, meal |-> found[1], meal_type |-> meal_type]
              \notin inflight
        /\ inflight' = inflight \cup
              {[kind |-> "reply", user |-> user_id, meal |-> found[1], meal_type |-> meal_type]}
        /\ lastOp' = [op |-> "reply_find", user |-> user_id, meal |-> found[1]]
        /\ UNCHANGED <<users, meals, food_items, food_nutrients, daily_summaries,
                       next_meal_id, next_food_id, now>>

\* The rest of complete_meal_processing (lines 261-303) for a request that
\* found its meal: the meal row it holds is written completed with the
\* category, whatever its status has become meanwhile, and committed; then
\* update_daily_summary adds the meal's totals and commits.
ReplyCommit(req) ==
    /\ req \in inflight
    /\ req.kind = "reply"
    /\ inflight' = inflight \ {req}
    /\ meals' = [meals EXCEPT ![req.meal].meal_type = req.meal_type,
                              ![req.meal].processing_status = "completed"]
    /\ daily_summaries' =
          update_daily_summary(daily_summaries, req.user, DateOf(meals[req.meal].timestamp),
                               CommitTotals(food_items, food_nutrients, req.meal))
    /\ lastOp' = [op |-> "reply_commit", user |-> req.user, meal |-> req.meal,
                  status_before |-> meals[req.meal].processing_status]
    /\ UNCHANGED <<users, food_items, food_nutrients, next_meal_id, next_food_id, now>>

\* ------------------------------------------------------- the specifications
\* The operations other than process_meal.
Commands ==
    \/ \E u \in Phones, t \in Replies : CompleteMealProcessing(u, t, TRUE)
    \/ \E u \in Phones : CancelPendingMeal(u)
    \/ \E u \in Phones : DeleteLastMeal(u)

Next ==
    \/ \E p \in Phones, r \in Recognitions : ProcessMeal(p, r)
    \/ Commands
    \/ \E p \in Phones, msg \in AddMessages : AddRestriction(p, msg)

\* Messages handled one at a time, every database transaction succeeding.
Spec == Init /\ [][Next]_vars

\* Photos and commands where the ledger transaction of a commit may fail.
NextFault ==
    \/ \E p \in Phones, r \in Recognitions : ProcessMeal(p, r)
    \/ Commands
    \/ \E u \in Phones, t \in Replies : CompleteMealProcessing(u, t, FALSE)

SpecFault == Init /\ [][NextFault]_vars

\* Requests handled concurrently: other operations run between the first
\* commit of a process_meal call and the rest of it.
NextConc ==
    \/ \E p \in Phones : ProcessMealStart(p)
    \/ \E m \in inflight, r \in Recognitions : ProcessMealFinish(m, r)
    \/ Commands

SpecConc == Init /\ [][NextConc]_vars

\* The photos sent while the webhook's text messages are studied: one that is
\* recognized and one that is not.
ChatRecognitions ==
    {[raised |-> FALSE, foods |-> <<GardenSalad>>], [raised |-> FALSE, foods |-> <<>>]}

\* Photos and text messages arriving at the webhook, one request at a time.
NextChat ==
    \/ \E p \in Phones, r \in ChatRecognitions : ProcessMeal(p, r)
    \/ \E p \in Phones, t \in Texts : TextMessage(p, t)

SpecChat == Init /\ [][NextChat]_vars

\* Photos and text messages arriving at the webhook, one request at a time,
\* Twilio accepting or refusing the message each request ends with.
NextWebhook ==
    \/ \E p \in Phones, r \in ChatRecognitions, d \in BOOLEAN : ProcessMealDelivery(p, r, d)
    \/ \E p \in Phones, t \in WebhookTexts, d \in BOOLEAN : TextMessageSent(p, t, d)

SpecWebhook == Init /\ [][NextWebhook]_vars

\* Photos handled one at a time, then commits and deletions whose ledger
\* read and ledger write interleave with those of one other request.
NextRace ==
    \/ \E p \in Phones, r \in ChatRecognitions : ProcessMeal(p, r)
    \/ \E u \in Phones, t \in Replies : CommitRead(u, t)
    \/ \E req \in inflight : CommitWrite(req)
    \/ \E u \in Phones : DeleteRead(u)
    \/ \E req \in inflight : DeleteWrite(req)

SpecRace == Init /\ [][NextRace]_vars

\* Photos and commands, with last_meal_id set as the deletion test sets it.
NextLastMeal ==
    \/ \E p \in Phones, r \in ChatRecognitions : ProcessMeal(p, r)
    \/ Commands
    \/ \E u \in Phones : SetLastMeal(u)

SpecLastMeal == Init /\ [][NextLastMeal]_vars

\* Photos and commands, with last_meal_id set, where the persistence of a
\* delete or of a cancel may fail.
NextPersist ==
    \/ NextLastMeal
    \/ \E u \in Phones : DeleteLastMealFailing(u)
    \/ \E u \in Phones : CancelPendingMealFailing(u)

SpecPersist == Init /\ [][NextPersist]_vars

\* validate_meal applied to each meal and each restriction string.
NextScreen == \E f \in ScreenedMeals, r \in ScreenedRestrictions : ValidateMeal(f, r)

SpecScreen == Init /\ [][NextScreen]_vars

\* The gate and its alert applied to each meal and each restriction string.
NextAlert == \E f \in AlertMeals, r \in ScreenedRestrictions : SendAlert(f, r)

SpecAlert == Init /\ [][NextAlert]_vars

\* Photos handled one at a time and category replies handled concurrently, two
\* at most at a time.
NextReply ==
    \/ \E p \in Phones, r \in ChatRecognitions : ProcessMeal(p, r)
    \/ \E u \in Phones, t \in Replies : ReplyFind(u, t)
    \/ \E req \in inflight : ReplyCommit(req)

SpecReply == Init /\ [][NextReply]_vars

\* Photos, goals set to 0 or to a positive target, the questions that compute
\* the goal progress, and category replies, one request at a time.
NextGoal ==
    \/ \E p \in Phones, r \in ChatRecognitions : ProcessMeal(p, r)
    \/ \E p \in Phones, target \in {0, 3} : SetGoal(p, target)
    \/ \E p \in Phones : GoalProgress(p)
    \/ \E p \in Phones : DailySummaryQuestion(p)
    \/ \E p \in Phones, t \in Replies : CategoryReply(p, t)

SpecGoal == Init /\ [][NextGoal]_vars

\* The rendering applied to meals of one to eleven foods.
NextDetails ==
    \E n \in 1..Len(DetailFoodNames), e \in 0..Len(DetailFoodNames),
       meal_type \in {"breakfast", "dinner"} : GetMealDetails(n, e, meal_type)

SpecDetails == Init /\ [][NextDetails]_vars

\* The restriction commands sent while the commands are studied by themselves:
\* two that name a restriction of the taxonomies and two that name 'sesame',
\* which is in neither taxonomy.
RestrictionCommands ==
    {"Add Shellfish", "My allergies are dairy", "add sesame allergy", "My allergies are sesame"}

\* The handler route_to_handler calls for a restriction command, as the stored
\* dietary_restrictions it leaves (chatbot_service.py lines 360-367).
route_restriction_command(current_restrictions, message_text) ==
    IF classify_question(message_text) = "add_restriction"
    THEN handle_add_restriction(current_restrictions, message_text)
    ELSE IF classify_question(message_text) = "restrictions_management"
    THEN handle_restrictions_setup(current_restrictions, message_text)
    ELSE current_restrictions

\* The values dietary_restrictions takes under the commands, and the handlers'
\* results tabulated over them.
RECURSIVE CommandClosure(_)
CommandClosure(S) ==
    LET T == S \cup {route_restriction_command(r, msg) : r \in S, msg \in RestrictionCommands}
    IN  IF T = S THEN S ELSE CommandClosure(T)
CommandStrings == CommandClosure({NULL})
CommandTable ==
    [r \in CommandStrings, msg \in RestrictionCommands |-> route_restriction_command(r, msg)]
CommandClass == [msg \in RestrictionCommands |-> classify_question(msg)]

\* A text message that classify_question routes to handle_add_restriction or
\* to handle_restrictions_setup, received through the webhook while no meal of
\* the sender awaits its category.
RestrictionCommand(phone_number, message_text) ==
    /\ AwaitingMeal(meals, phone_number) = None
    /\ ~Contains("change to", Lower(message_text))
    /\ CommandClass[message_text] \in {"add_restriction", "restrictions_management"}
    /\ LET created == get_or_create_user(users, phone_number)
       IN  /\ users' = [created EXCEPT ![phone_number].dietary_restrictions =
                           CommandTable[@, message_text]]
           /\ lastOp' = [op |-> "restriction_command", user |-> phone_number,
                         message_text |-> message_text,
                         question_type |-> CommandClass[message_text],
                         before |-> created[phone_number].dietary_restrictions]
    /\ UNCHANGED <<meals, food_items, food_nutrients, daily_summaries,
                   next_meal_id, next_food_id, now, inflight>>

\* Restriction commands arriving at the webhook, one request at a time.
NextRestrict == \E p \in Phones, msg \in RestrictionCommands : RestrictionCommand(p, msg)

SpecRestrict == Init /\ [][NextRestrict]_vars

\* get_nutrition_data applied to each name, portion and answer of the service.
NextLookup ==
    \E f \in LookupNames, g \in LookupPortions, a \in LookupSearches : LookupFood(f, g, a)

SpecLookup == Init /\ [][NextLookup]_vars

\* ------------------------------------------------------------- properties
\* The fields of a DailySummary row.
SummaryFields ==
    {"total_calories", "total_protein", "total_carbs", "total_fat",
     "total_fiber", "total_sugar", "total_sodium", "meal_count"}

\* The calendar dates a run's meals can fall on.
Dates == 0..(MaxMeals \div TicksPerDay)

\* The rows of table tbl other than row k are the same in tbl2.
SameExcept(tbl, tbl2, ks) ==
    /\ DOMAIN tbl2 \ ks = DOMAIN tbl \ ks
    /\ \A k \in DOMAIN tbl \ ks : tbl2[k] = tbl[k]

\* The user's committed meals of one date.
CompletedOn(user_id, date) ==
    {m \in DOMAIN meals : /\ meals[m].user_id = user_id
                          /\ meals[m].processing_status = "completed"
                          /\ DateOf(meals[m].timestamp) = date}

RECURSIVE SumOfMeals(_, _)
SumOfMeals(S, col) ==
    IF S = {} THEN 0
    ELSE LET m == CHOOSE e \in S : TRUE
         IN  MealTotal(food_items, food_nutrients, m, col) + SumOfMeals(S \ {m}, col)

\* C1: a meal that is committed and then removed by delete_last_meal, nothing
\* happening in between, leaves every field of the DailySummary of its date -
\* the seven totals and meal_count - at the value it had before the commit.
C1_CommitThenDeleteRestores ==
    [][ ( /\ lastOp.op = "complete_meal_processing" /\ lastOp.success
          /\ lastOp'.op = "delete_last_meal" /\ lastOp'.success
          /\ lastOp'.meal = lastOp.meal )
        => SummaryOrZero(daily_summaries', lastOp.user, lastOp.date) = lastOp.before ]_vars

\* The photos and restriction strings in which at least one candidate matches,
\* by its name or one of its ingredients, an allergen of the restricted set.
MatchesRestricted(food, restrictions_string) ==
    \E a \in RestrictedAllergens(parse_user_restrictions(restrictions_string)) :
        \/ KeywordHit(a, Lower(food.name))
        \/ \E g \in Range(food.ingredients) : KeywordHit(a, Lower(g))
ViolatingPhotos ==
    {row \in Photos \X RestrictionStrings :
        \E i \in 1..Len(row[1]) : MatchesRestricted(row[1][i], row[2])}

\* C2: when at least one candidate of a photo matches an allergen of the
\* user's restricted set, the meal ends failed, process_meal adds no FoodItem
\* and no FoodNutrient row, and the message sent is not the category prompt,
\* however many other candidates are safe.
C2_GateAllOrNothing ==
    [][ ( /\ lastOp'.op = "process_meal"
          /\ <<lastOp'.foods, lastOp'.restrictions>> \in ViolatingPhotos )
        => /\ meals'[lastOp'.meal].processing_status = "failed"
           /\ food_items' = food_items
           /\ food_nutrients' = food_nutrients
           /\ lastOp'.message # "category_prompt" ]_vars

\* A photo with a safe and a violating candidate was blocked.
C2_Witness ==
    /\ lastOp.op = "process_meal"
    /\ lastOp.foods = <<GardenSalad, ShrimpPasta>>
    /\ lastOp.restrictions = "shellfish"
    /\ lastOp.exit = "blocked"

\* C3: in every reachable state, also after the ledger write of a commit
\* failed, the meal_count and total_calories of each DailySummary are those of
\* the committed meals of its user and date: no committed meal is missing from
\* the ledger and no ledger entry lacks its committed meal.
C3_CommitAtomic ==
    \A u \in Phones, d \in Dates :
        /\ SummaryOrZero(daily_summaries, u, d).meal_count = Cardinality(CompletedOn(u, d))
        /\ SummaryOrZero(daily_summaries, u, d).total_calories = SumOfMeals(CompletedOn(u, d), "calories")

\* C4: every total and the meal_count of every DailySummary is >= 0.
C4_SummaryNonNegative ==
    \A k \in DOMAIN daily_summaries : \A f \in SummaryFields : daily_summaries[k][f] >= 0

\* A meal whose calories exceed the summary's total was deleted, and the total
\* is 0.
C4_Witness ==
    /\ lastOp.op = "delete_last_meal" /\ lastOp.success
    /\ lastOp.totals.calories > lastOp.before.total_calories
    /\ <<lastOp.user, lastOp.date>> \in DOMAIN daily_summaries
    /\ daily_summaries[<<lastOp.user, lastOp.date>>].total_calories = 0

\* C5: a successful cancel_pending_meal deletes exactly one meal, the user's
\* most recent meal with status pending or analyzed, and the FoodItem rows of
\* that meal; every other meal and food item, committed meals included, and
\* every DailySummary stay as they were.
C5_CancelOnlyUncommitted ==
    [][ (lastOp'.op = "cancel_pending_meal" /\ lastOp'.success)
        => LET m == lastOp'.meal
           IN  /\ m \in DOMAIN meals
               /\ meals[m].user_id = lastOp'.user
               /\ meals[m].processing_status \in {"pending", "analyzed"}
               /\ \A o \in DOMAIN meals :
                     ( /\ meals[o].user_id = lastOp'.user
                       /\ meals[o].processing_status \in {"pending", "analyzed"} )
                     => meals[o].timestamp <= meals[m].timestamp
               /\ m \notin DOMAIN meals'
               /\ SameExcept(meals, meals', {m})
               /\ ItemsOf(food_items', m) = {}
               /\ SameExcept(food_items, food_items', ItemsOf(food_items, m))
               /\ daily_summaries' = daily_summaries ]_vars

\* The older of a user's two uncommitted meals is still there after the cancel
\* of the newer, and so are a committed meal and its summary.
C5_Witness ==
    /\ lastOp.op = "cancel_pending_meal" /\ lastOp.success
    /\ \E o \in DOMAIN meals : /\ meals[o].user_id = lastOp.user
                               /\ meals[o].processing_status \in {"pending", "analyzed"}
    /\ \E o \in DOMAIN meals : /\ meals[o].user_id = lastOp.user
                               /\ meals[o].processing_status = "completed"
                               /\ ItemsOf(food_items, o) # {}
    /\ DOMAIN daily_summaries # {}

\* C6: a successful delete_last_meal removes the user's committed meal with the
\* latest timestamp and nothing else from the meals table, and takes that
\* meal's seven totals and one meal out of the DailySummary of the meal's date
\* (not below zero), every other DailySummary staying as it was.
C6_DeleteOnlyLatestCommitted ==
    [][ (lastOp'.op = "delete_last_meal" /\ lastOp'.success)
        => LET m == lastOp'.meal
               u == lastOp'.user
               d == DateOf(meals[m].timestamp)
               was == SummaryOrZero(daily_summaries, u, d)
               is == SummaryOrZero(daily_summaries', u, d)
               Total(col) == MealTotal(food_items, food_nutrients, m, col)
           IN  /\ m \in CompletedOn(u, d)
               /\ \A o \in DOMAIN meals :
                     (meals[o].user_id = u /\ meals[o].processing_status = "completed")
                     => meals[o].timestamp <= meals[m].timestamp
               /\ m \notin DOMAIN meals'
               /\ SameExcept(meals, meals', {m})
               /\ is.total_calories = Max(0, was.total_calories - Total("calories"))
               /\ is.total_protein = Max(0, was.total_protein - Total("protein_g"))
               /\ is.total_carbs = Max(0, was.total_carbs - Total("carbs_g"))
               /\ is.total_fat = Max(0, was.total_fat - Total("fat_g"))
               /\ is.total_fiber = Max(0, was.total_fiber - Total("fiber_g"))
               /\ is.total_sugar = Max(0, was.total_sugar - Total("sugar_g"))
               /\ is.total_sodium = Max(0, was.total_sodium - Total("sodium_mg"))
               /\ is.meal_count = Max(0, was.meal_count - 1)
               /\ SameExcept(daily_summaries, daily_summaries', {<<u, d>>}) ]_vars

\* C7: cancel_pending_meal for a user without a pending or analyzed meal, and
\* delete_last_meal for a user without a committed meal, return success = false
\* with their message, and no user, meal, food item, nutrient or summary row
\* changes.
C7_FailureIsNoOp ==
    [][ /\ ( /\ lastOp'.op = "cancel_pending_meal"
             /\ \A o \in DOMAIN meals :
                   meals[o].user_id = lastOp'.user
                   => meals[o].processing_status \notin {"pending", "analyzed"} )
           => /\ ~lastOp'.success
              /\ lastOp'.message = "No pending meal to cancel"
              /\ db' = db
        /\ ( /\ lastOp'.op = "delete_last_meal"
             /\ \A o \in DOMAIN meals :
                   meals[o].user_id = lastOp'.user
                   => meals[o].processing_status # "completed" )
           => /\ ~lastOp'.success
              /\ lastOp'.message = "No meals to delete"
              /\ db' = db ]_vars

\* A cancel failed for a user whose only meals are committed or failed.
C7_Witness ==
    /\ lastOp.op = "cancel_pending_meal" /\ ~lastOp.success
    /\ \E o \in DOMAIN meals : /\ meals[o].user_id = lastOp.user
                               /\ meals[o].processing_status = "completed"
    /\ \E o \in DOMAIN meals : /\ meals[o].user_id = lastOp.user
                               /\ meals[o].processing_status = "failed"

\* The candidates of a photo are well formed: each portion is a number.
WellFormed(detected_foods) ==
    \A i \in 1..Len(detected_foods) : detected_foods[i].portion_is_number
\* There are candidates and their mean confidence is at least 0.3.
Recognized(detected_foods) ==
    /\ Len(detected_foods) > 0
    /\ SumSeq([i \in 1..Len(detected_foods) |-> detected_foods[i].confidence])
          >= 3 * Len(detected_foods)

\* C8: for a user without restrictions, a photo with recognized foods leaves
\* its meal analyzed with meal_type 'pending' and one FoodItem, with one
\* FoodNutrient holding the looked-up values, per food; a category reply that
\* commits a meal sets its status to completed and its meal_type to the reply,
\* adds 1 to the meal_count of the DailySummary of the meal's date and adds to
\* each of its totals the sum of that nutrient over the meal's foods.
C8_PhotoThenReplyCommits ==
    [][ /\ ( /\ lastOp'.op = "process_meal"
             /\ lastOp'.restrictions = NULL
             /\ Recognized(lastOp'.foods) /\ WellFormed(lastOp'.foods) )
           => LET m == lastOp'.meal
                  items == ItemsOf(food_items', m)
                  NutrientsOf(i) == {n \in DOMAIN food_nutrients' : food_nutrients'[n].food_item_id = i}
              IN  /\ meals'[m].processing_status = "analyzed"
                  /\ meals'[m].meal_type = "pending"
                  /\ Cardinality(items) = Len(lastOp'.foods)
                  /\ \A i \in items : Cardinality(NutrientsOf(i)) = 1
                  /\ \A k \in 1..Len(lastOp'.foods) : \E i \in items : \E n \in NutrientsOf(i) :
                        /\ food_items'[i].name = lastOp'.foods[k].name
                        /\ \A col \in DOMAIN lastOp'.foods[k].nutrition :
                              food_nutrients'[n][col] = lastOp'.foods[k].nutrition[col]
        /\ (lastOp'.op = "complete_meal_processing" /\ lastOp'.success)
           => LET m == lastOp'.meal
                  d == DateOf(meals[m].timestamp)
                  was == SummaryOrZero(daily_summaries, lastOp'.user, d)
                  is == SummaryOrZero(daily_summaries', lastOp'.user, d)
                  Total(col) == MealTotal(food_items, food_nutrients, m, col)
              IN  /\ lastOp'.meal_type \in MealTypes
                  /\ meals'[m].processing_status = "completed"
                  /\ meals'[m].meal_type = lastOp'.meal_type
                  /\ is.meal_count = was.meal_count + 1
                  /\ is.total_calories = was.total_calories + Total("calories")
                  /\ is.total_protein = was.total_protein + Total("protein_g")
                  /\ is.total_carbs = was.total_carbs + Total("carbs_g")
                  /\ is.total_fat = was.total_fat + Total("fat_g")
                  /\ is.total_fiber = was.total_fiber + Total("fiber_g")
                  /\ is.total_sugar = was.total_sugar + Total("sugar_g")
                  /\ is.total_sodium = was.total_sodium + Total("sodium_mg") ]_vars

\* An unrestricted user's meal of two foods was committed on a date that
\* already had a committed meal.
C8_Witness ==
    /\ lastOp.op = "complete_meal_processing" /\ lastOp.success
    /\ users[lastOp.user].dietary_restrictions = NULL
    /\ Cardinality(ItemsOf(food_items, lastOp.meal)) = 2
    /\ lastOp.before.meal_count = 1
    /\ daily_summaries[<<lastOp.user, lastOp.date>>].meal_count = 2

\* C9: a process_meal call whose meal ends failed leaves the daily_summaries
\* table as it was: no row created, no total and no meal_count changed.
C9_FailedPhotoLeavesLedger ==
    [][ ( /\ lastOp'.op = "process_meal"
          /\ meals'[lastOp'.meal].processing_status = "failed" )
        => daily_summaries' = daily_summaries ]_vars

\* A photo was blocked for a user who has a summary for that date.
C9_Witness ==
    /\ lastOp.op = "process_meal"
    /\ lastOp.exit = "blocked"
    /\ <<lastOp.user, DateOf(meals[lastOp.meal].timestamp)>> \in DOMAIN daily_summaries

\* C10: when recognition returns no candidate, or candidates whose mean
\* confidence is below 0.3, the meal ends failed, get_nutrition_data is not
\* called and the meal has no FoodItem row.
C10_NoFoodNoLookup ==
    ( /\ lastOp.op = "process_meal"
      /\ ~Recognized(lastOp.foods) )
    => /\ meals[lastOp.meal].processing_status = "failed"
       /\ lastOp.lookups = 0
       /\ ItemsOf(food_items, lastOp.meal) = {}

\* A photo with one candidate of confidence 0.1 was handled.
C10_Witness ==
    /\ lastOp.op = "process_meal"
    /\ lastOp.foods = <<BlurredObject>>
    /\ lastOp.exit = "no_food"

\* The category tokens the specification accepts in a reply: the words, in the
\* order they are looked for, and the digits.
CategoryWords ==
    << <<"breakfast", "breakfast">>, <<"morning", "breakfast">>, <<"lunch", "lunch">>,
       <<"noon", "lunch">>, <<"dinner", "dinner">>, <<"supper", "dinner">>,
       <<"evening", "dinner">>, <<"snack", "snack">> >>
CategoryDigits == {<<"1", "breakfast">>, <<"2", "lunch">>, <<"3", "dinner">>, <<"4", "snack">>}
HasCategoryWord(text) == \E i \in 1..Len(CategoryWords) : Contains(CategoryWords[i][1], Lower(text))
WordCategory(text) ==
    CategoryWords[CHOOSE i \in 1..Len(CategoryWords) :
        /\ Contains(CategoryWords[i][1], Lower(text))
        /\ \A j \in 1..(i - 1) : ~Contains(CategoryWords[j][1], Lower(text))][2]
IsCategoryDigit(text) == \E dc \in CategoryDigits : dc[1] = text
DigitCategory(text) == (CHOOSE dc \in CategoryDigits : dc[1] = text)[2]
\* The texts sent, by the kind of token they hold.
TextsWithoutToken == {t \in Texts : ~HasCategoryWord(t) /\ ~IsCategoryDigit(t)}
TextsWithWord == {t \in Texts : HasCategoryWord(t)}
TextsOfDigit == {t \in Texts : IsCategoryDigit(t)}

\* C11: a text without a category token, sent while a meal of the sender
\* awaits its category, leaves the meals, food item, nutrient and summary
\* tables as they were and is answered by the category re-prompt; a reply with
\* a category word sent next by the same user commits that same meal with the
\* category of the word.
C11_UnrecognizedReplyReprompts ==
    [][ /\ ( /\ lastOp'.op = "text_message"
             /\ lastOp'.awaiting # None
             /\ lastOp'.text \in TextsWithoutToken )
           => /\ lastOp'.reply = "category_reprompt"
              /\ meals' = meals
              /\ food_items' = food_items
              /\ food_nutrients' = food_nutrients
              /\ daily_summaries' = daily_summaries
        /\ ( /\ lastOp.op = "text_message"
             /\ lastOp.reply = "category_reprompt"
             /\ lastOp.text \in TextsWithoutToken
             /\ lastOp'.op = "text_message"
             /\ lastOp'.user = lastOp.user
             /\ lastOp'.text \in TextsWithWord )
           => /\ lastOp'.meal = lastOp.awaiting
              /\ meals'[lastOp.awaiting[1]].processing_status = "completed"
              /\ meals'[lastOp.awaiting[1]].meal_type = WordCategory(lastOp'.text)
              /\ SummaryOrZero(daily_summaries', lastOp.user,
                               DateOf(meals[lastOp.awaiting[1]].timestamp)).meal_count
                 = SummaryOrZero(daily_summaries, lastOp.user,
                                 DateOf(meals[lastOp.awaiting[1]].timestamp)).meal_count + 1 ]_vars

\* 'breakfast' committed a meal right after 'xyz' was answered by the re-prompt.
C11_Witness ==
    /\ lastOp.op = "text_message"
    /\ lastOp.text = "breakfast"
    /\ lastOp.reply = "confirmation"
    /\ lastOp.reprompted = Some("xyz")
    /\ meals[lastOp.meal[1]].processing_status = "completed"
    /\ meals[lastOp.meal[1]].meal_type = "breakfast"

\* C12: a reply that is the digit 1, 2, 3 or 4, sent while a meal of the sender
\* awaits its category, commits that meal as breakfast, lunch, dinner or snack.
C12_DigitReplyCommits ==
    [][ ( /\ lastOp'.op = "text_message"
          /\ lastOp'.awaiting # None
          /\ lastOp'.text \in TextsOfDigit )
        => /\ meals'[lastOp'.awaiting[1]].processing_status = "completed"
           /\ meals'[lastOp'.awaiting[1]].meal_type = DigitCategory(lastOp'.text) ]_vars

\* C13: the text 'cancel' or 'stop', sent when the sender's most recent meal
\* awaits its category, deletes that meal with its FoodItem and FoodNutrient
\* rows and changes no DailySummary.
C13_CancelWhileAwaiting ==
    [][ ( /\ lastOp'.op = "text_message"
          /\ lastOp'.text \in {"cancel", "stop"}
          /\ lastOp'.awaiting # None
          /\ \A o \in DOMAIN meals :
                meals[o].user_id = lastOp'.user
                => meals[o].timestamp <= meals[lastOp'.awaiting[1]].timestamp )
        => /\ lastOp'.awaiting[1] \notin DOMAIN meals'
           /\ ItemsOf(food_items', lastOp'.awaiting[1]) = {}
           /\ \A n \in DOMAIN food_nutrients' :
                 food_nutrients'[n].food_item_id \notin ItemsOf(food_items, lastOp'.awaiting[1])
           /\ daily_summaries' = daily_summaries ]_vars

\* The texts sent that ask for a category correction and name a category.
ChangeRequests == {t \in Texts : Contains("change to", Lower(t)) /\ HasCategoryWord(t)}

\* C16: a 'change to X' text naming a category, sent while no meal of the
\* sender awaits its category, sets the meal_type of the sender's most recently
\* committed meal to X and changes nothing else: not that meal's status or
\* timestamp, no other meal, no food item, nutrient, summary or user row.  When
\* the sender has no committed meal the reply is 'No recent meal found to
\* update.' and no row changes (a sender not seen before is registered).
C16_ChangeToRetargetsCategoryOnly ==
    [][ ( /\ lastOp'.op = "text_message"
          /\ lastOp'.awaiting = None
          /\ lastOp'.text \in ChangeRequests )
        => LET u == lastOp'.user
               committed == {m \in DOMAIN meals : /\ meals[m].user_id = u
                                                  /\ meals[m].processing_status = "completed"}
           IN  /\ food_items' = food_items
               /\ food_nutrients' = food_nutrients
               /\ daily_summaries' = daily_summaries
               /\ users' = get_or_create_user(users, u)
               /\ IF committed = {}
                  THEN /\ meals' = meals
                       /\ lastOp'.reply = "No recent meal found to update."
                  ELSE LET m == CHOOSE x \in committed :
                                   \A o \in committed : meals[o].timestamp <= meals[x].timestamp
                       IN  /\ u \in DOMAIN users
                           /\ lastOp'.meal = Some(m)
                           /\ meals' = [meals EXCEPT ![m].meal_type = WordCategory(lastOp'.text)]
                           /\ meals'[m].processing_status = "completed" ]_vars

\* 'Change to Lunch' retargeted a user's committed meal, counted in the summary
\* of its date, the user having a failed meal after it.
C16_Witness ==
    /\ lastOp.op = "text_message"
    /\ lastOp.text = "Change to Lunch"
    /\ lastOp.reply = "Updated!"
    /\ \E o \in DOMAIN meals :
          /\ o # lastOp.meal[1]
          /\ meals[o].user_id = lastOp.user
          /\ meals[o].processing_status = "failed"
          /\ meals[o].timestamp > meals[lastOp.meal[1]].timestamp
    /\ meals[lastOp.meal[1]].meal_type = "lunch"
    /\ daily_summaries[<<lastOp.user, DateOf(meals[lastOp.meal[1]].timestamp)>>].meal_count = 1

\* C14: in every reachable state each user has at most one pending meal, a
\* meal whose status is pending or analyzed (neither committed, cancelled nor
\* failed).
C14_AtMostOnePendingMeal ==
    \A u \in Phones :
        Cardinality({m \in DOMAIN meals : /\ meals[m].user_id = u
                                          /\ meals[m].processing_status \in {"pending", "analyzed"}}) <= 1

\* C15: whenever no commit or deletion is running, the meal_count and the
\* total_calories of each DailySummary are those of the committed meals of its
\* user and date, however the commits and deletions before were interleaved:
\* no ledger update is lost and meal_count is the number of commits minus the
\* number of deletions.
C15_LedgerAtomicPerUserDate ==
    inflight = {} =>
        \A u \in Phones, d \in Dates :
            /\ SummaryOrZero(daily_summaries, u, d).meal_count = Cardinality(CompletedOn(u, d))
            /\ SummaryOrZero(daily_summaries, u, d).total_calories
               = SumOfMeals(CompletedOn(u, d), "calories")

\* C17: in every reachable state, the last_meal_id of a user who has a
\* committed meal is the id of that user's committed meal with the latest
\* timestamp.
C17_LastMealIsLatestCommitted ==
    \A u \in DOMAIN users :
        \A m \in DOMAIN meals :
            ( /\ meals[m].user_id = u
              /\ meals[m].processing_status = "completed"
              /\ \A o \in DOMAIN meals :
                    (meals[o].user_id = u /\ meals[o].processing_status = "completed")
                    => meals[o].timestamp <= meals[m].timestamp )
            => users[u].last_meal_id = Some(m)

\* C18: after a successful delete_last_meal the user's last_meal_id is not the
\* deleted meal; when it was the deleted meal before the call it is now the
\* user's remaining committed meal with the latest timestamp, or None when no
\* committed meal of the user remains.
C18_DeleteRepointsLastMeal ==
    [][ (lastOp'.op = "delete_last_meal" /\ lastOp'.success)
        => LET u == lastOp'.user
               m == lastOp'.meal
               remaining == {o \in DOMAIN meals' : /\ meals'[o].user_id = u
                                                   /\ meals'[o].processing_status = "completed"}
           IN  /\ users'[u].last_meal_id # Some(m)
               /\ users[u].last_meal_id = Some(m)
                  => IF remaining = {} THEN users'[u].last_meal_id = None
                     ELSE \E x \in remaining :
                             /\ users'[u].last_meal_id = Some(x)
                             /\ \A o \in remaining : meals'[o].timestamp <= meals'[x].timestamp ]_vars

\* A delete removed the meal last_meal_id referred to and left it referring to
\* an older committed meal of the user.
C18_Witness ==
    /\ lastOp.op = "delete_last_meal" /\ lastOp.success
    /\ lastOp.last_meal_before = Some(lastOp.meal)
    /\ \E x \in DOMAIN meals :
          /\ users[lastOp.user].last_meal_id = Some(x)
          /\ meals[x].user_id = lastOp.user
          /\ meals[x].processing_status = "completed"

\* The allergens restricted for user_restrictions: those listed explicitly and
\* those a listed preference excludes.
ListedAllergen(ur, a) == \E i \in 1..Len(ur.allergens) : ur.allergens[i] = a
ExcludedByPreference(ur, a) ==
    \E i \in 1..Len(ur.preferences) : \E j \in 1..Len(dietary_preferences) :
        /\ dietary_preferences[j].key = ur.preferences[i]
        /\ \E k \in 1..Len(dietary_preferences[j].excludes) : dietary_preferences[j].excludes[k] = a
\* The restricted allergens detected in a food.
RestrictedIn(ur, food) ==
    {a \in food.detected_allergens : ListedAllergen(ur, a) \/ ExcludedByPreference(ur, a)}

\* C19: validate_meal gives has_violations exactly when some food's detected
\* allergens meet the restricted set (explicit allergens and the allergens the
\* preferences exclude); safe_foods is the list of the names of the foods whose
\* detected allergens do not meet it, in the order of the meal; and violations
\* has one entry for each food and each restricted allergen detected in it.
C19_ValidateMealExact ==
    lastOp.op = "validate_meal" =>
        LET foods == lastOp.foods
            ur == lastOp.user_restrictions
            result == lastOp.result
            safe == SelectSeq(foods, LAMBDA f : RestrictedIn(ur, f) = {})
        IN  /\ result.has_violations <=> \E i \in 1..Len(foods) : RestrictedIn(ur, foods[i]) # {}
            /\ result.safe_foods = [i \in 1..Len(safe) |-> safe[i].name]
            /\ Len(result.violations)
               = SumSeq([i \in 1..Len(foods) |-> Cardinality(RestrictedIn(ur, foods[i]))])
            /\ \A i \in 1..Len(foods) : \A a \in RestrictedIn(ur, foods[i]) :
                  \E v \in 1..Len(result.violations) :
                      /\ result.violations[v].food_name = foods[i].name
                      /\ result.violations[v].allergen = a
            /\ \A v \in 1..Len(result.violations) : \E i \in 1..Len(foods) :
                  /\ result.violations[v].food_name = foods[i].name
                  /\ result.violations[v].allergen \in RestrictedIn(ur, foods[i])

\* A meal of a safe food and of a food with two restricted allergens, one
\* listed and one excluded by a preference, was validated.
C19_Witness ==
    /\ lastOp.op = "validate_meal"
    /\ Len(lastOp.foods) = 2
    /\ Len(lastOp.user_restrictions.allergens) > 0
    /\ Len(lastOp.user_restrictions.preferences) > 0
    /\ Len(lastOp.result.safe_foods) = 1
    /\ Len(lastOp.result.violations) = 2
    /\ lastOp.result.has_violations

\* C20: a violation has severity 'allergen' when its allergen is one the user
\* listed explicitly, whether or not a preference excludes it too, and severity
\* 'preference' when only a preference of the user excludes it.
C20_SeverityByOrigin ==
    lastOp.op = "validate_meal" =>
        \A v \in 1..Len(lastOp.result.violations) :
            LET a == lastOp.result.violations[v].allergen
                ur == lastOp.user_restrictions
            IN  /\ ListedAllergen(ur, a) => lastOp.result.violations[v].severity = "allergen"
                /\ (~ListedAllergen(ur, a) /\ ExcludedByPreference(ur, a))
                   => lastOp.result.violations[v].severity = "preference"

\* A violation of an allergen both listed and excluded by a preference was
\* tagged 'allergen', and another violation of the same meal 'preference'.
C20_Witness ==
    /\ lastOp.op = "validate_meal"
    /\ \E v \in 1..Len(lastOp.result.violations) :
          /\ ListedAllergen(lastOp.user_restrictions, lastOp.result.violations[v].allergen)
          /\ ExcludedByPreference(lastOp.user_restrictions, lastOp.result.violations[v].allergen)
          /\ lastOp.result.violations[v].severity = "allergen"
    /\ \E v \in 1..Len(lastOp.result.violations) :
          lastOp.result.violations[v].severity = "preference"

\* C21: the result of validate_meal has a flagged_foods list; every food with
\* at least one violation is in flagged_foods, and every food without one is
\* in safe_foods and not in flagged_foods.
C21_FlaggedFoodsListed ==
    lastOp.op = "validate_meal" =>
        LET foods == lastOp.foods
            ur == lastOp.user_restrictions
            result == lastOp.result
        IN  IF "flagged_foods" \notin DOMAIN result THEN FALSE
            ELSE \A i \in 1..Len(foods) :
                    IF RestrictedIn(ur, foods[i]) # {}
                    THEN foods[i].name \in Range(result.flagged_foods)
                    ELSE /\ foods[i].name \in Range(result.safe_foods)
                         /\ foods[i].name \notin Range(result.flagged_foods)

\* C22: when the lookup loop of process_meal ends by an error after it wrote
\* the FoodItem / FoodNutrient rows of earlier candidates, those rows are
\* rolled back: the meal ends failed and no FoodItem and no FoodNutrient row
\* of the call is in the tables.
C22_LookupErrorRollsBack ==
    [][ ( /\ lastOp'.op = "process_meal"
          /\ lastOp'.exit = "lookup_error"
          /\ lastOp'.lookups > 1 )
        => /\ meals'[lastOp'.meal].processing_status = "failed"
           /\ ItemsOf(food_items', lastOp'.meal) = {}
           /\ food_items' = food_items
           /\ food_nutrients' = food_nutrients ]_vars

\* C23: when analyze_food_image raises, the meal of the photo ends failed,
\* process_meal makes no lookup and writes no FoodItem or FoodNutrient row,
\* every DailySummary stays as it was, and the call ends by sending the retry
\* prompt (the error is handled inside process_meal).
C23_RecognitionFailureHandled ==
    [][ ( /\ lastOp'.op = "process_meal"
          /\ lastOp'.recognition_raised )
        => /\ meals'[lastOp'.meal].processing_status = "failed"
           /\ ItemsOf(food_items', lastOp'.meal) = {}
           /\ food_items' = food_items
           /\ food_nutrients' = food_nutrients
           /\ lastOp'.lookups = 0
           /\ daily_summaries' = daily_summaries
           /\ lastOp'.message = "retry_prompt" ]_vars

\* The recognition of a photo raised for a user who has a committed meal with
\* food items and a summary.
C23_Witness ==
    /\ lastOp.op = "process_meal"
    /\ lastOp.recognition_raised
    /\ meals[lastOp.meal].processing_status = "failed"
    /\ \E o \in DOMAIN meals : /\ meals[o].user_id = lastOp.user
                               /\ meals[o].processing_status = "completed"
                               /\ ItemsOf(food_items, o) # {}
    /\ \E d \in Dates : <<lastOp.user, d>> \in DOMAIN daily_summaries

\* C24: a message Twilio does not accept changes nothing in the database: when
\* the confirmation of a commit is not delivered the meal is completed with
\* the reply's category and its totals and one meal are in the DailySummary of
\* its date; when the category prompt is not delivered the meal is analyzed,
\* awaiting its category, with its food items.
C24_DeliveryFailureKeepsState ==
    [][ /\ ( /\ lastOp'.op = "text_message"
             /\ lastOp'.reply = "confirmation"
             /\ ~lastOp'.delivered )
           => LET m == lastOp'.meal[1]
                  d == DateOf(meals[m].timestamp)
                  was == SummaryOrZero(daily_summaries, lastOp'.user, d)
                  is == SummaryOrZero(daily_summaries', lastOp'.user, d)
              IN  /\ meals'[m].processing_status = "completed"
                  /\ meals'[m].meal_type \in MealTypes
                  /\ is.meal_count = was.meal_count + 1
                  /\ is.total_calories
                     = was.total_calories + MealTotal(food_items, food_nutrients, m, "calories")
                  /\ food_items' = food_items
        /\ ( /\ lastOp'.op = "process_meal"
             /\ lastOp'.message = "category_prompt"
             /\ ~lastOp'.delivered )
           => /\ meals'[lastOp'.meal].processing_status = "analyzed"
              /\ meals'[lastOp'.meal].meal_type = "pending"
              /\ AwaitingMeal(meals', lastOp'.user) = Some(lastOp'.meal)
              /\ Cardinality(ItemsOf(food_items', lastOp'.meal)) = Len(lastOp'.foods) ]_vars

\* The confirmation of a commit was not delivered; the meal is completed and
\* counted in the summary of its date.
C24_Witness ==
    /\ lastOp.op = "text_message"
    /\ lastOp.reply = "confirmation"
    /\ ~lastOp.delivered
    /\ meals[lastOp.meal[1]].processing_status = "completed"
    /\ SummaryOrZero(daily_summaries, lastOp.user,
                     DateOf(meals[lastOp.meal[1]].timestamp)).meal_count >= 1

\* C28: a 'detail' message from a user who has a committed meal is answered
\* with the details of the user's most recently committed meal whatever the
\* state of the user's other meals, also while one of them awaits its category.
C28_DetailInEveryState ==
    [][ ( /\ lastOp'.op = "text_message"
          /\ lastOp'.text = "detail"
          /\ \E o \in DOMAIN meals : /\ meals[o].user_id = lastOp'.user
                                     /\ meals[o].processing_status = "completed" )
        => /\ lastOp'.reply = "meal_details"
           /\ lastOp'.meal # None
           /\ meals[lastOp'.meal[1]].user_id = lastOp'.user
           /\ meals[lastOp'.meal[1]].processing_status = "completed"
           /\ \A o \in DOMAIN meals :
                 (meals[o].user_id = lastOp'.user /\ meals[o].processing_status = "completed")
                 => meals[o].timestamp <= meals[lastOp'.meal[1]].timestamp ]_vars

\* The four nutrients every lookup result must hold.
MainNutrients == {"calories", "protein_g", "carbs_g", "fat_g"}

\* C25: for every food name and mass, whether the food is in the fallback
\* table, the database has a match, has none (or the request failed), or the
\* match cannot be read, get_nutrition_data returns a result with calories,
\* protein, carbs and fat, each in proportion to the mass (100 times the value
\* is the mass times the value for 100 g), and the candidate gets its FoodItem.
C25_LookupAlwaysAnswers ==
    lastOp.op = "get_nutrition_data" =>
        /\ lastOp.nutrition # None
        /\ lastOp.persisted
        /\ \A col \in MainNutrients :
              /\ col \in DOMAIN lastOp.nutrition[1]
              /\ lastOp.nutrition[1][col] # None
              /\ lastOp.nutrition[1][col][1] >= 0
              /\ 100 * lastOp.nutrition[1][col][1]
                 = lastOp.portion_grams
                   * get_nutrition_data(lastOp.food_name, 100, lastOp.searches)[1][col][1]

\* A food that is not in the fallback table was looked up for 250 g, the
\* database had no match and the request for the generalized name none either,
\* and the result holds calories.
C25_Witness ==
    /\ lastOp.op = "get_nutrition_data"
    /\ lastOp.food_name = "grilled chicken"
    /\ lastOp.portion_grams = 250
    /\ lastOp.searches = <<None, None>>
    /\ lastOp.nutrition # None
    /\ lastOp.nutrition[1].calories = Some(1650 * 250)

\* The commands that name only a restriction outside the allergen and the
\* preference taxonomies.
UnrecognizedCommands == {"add sesame allergy", "My allergies are sesame"}

\* C26: after an add-restriction or set-restrictions command that names a
\* restriction outside the taxonomies, the user's dietary_restrictions is what
\* it was before the command, whether the user had restrictions or none.
C26_UnrecognizedRestrictionNoChange ==
    [][ ( /\ lastOp'.op = "restriction_command"
          /\ lastOp'.message_text \in UnrecognizedCommands )
        => users'[lastOp'.user].dietary_restrictions = lastOp'.before ]_vars

\* The moves of a meal's processing_status that go forward: a draft is
\* analyzed or fails, an analyzed meal is committed or fails.
ForwardMoves ==
    {<<"pending", "analyzed">>, <<"pending", "failed">>,
     <<"analyzed", "completed">>, <<"analyzed", "failed">>}

\* C27: in every step, a meal that stays keeps its status or makes a forward
\* move, so failed and completed meals keep theirs; a meal never starts as
\* completed; a failed meal is never removed, a completed meal is removed only
\* by delete_last_meal of that meal, a draft or analyzed meal only by
\* cancel_pending_meal; and daily_summaries changes only when an analyzed meal
\* is committed or a completed meal is deleted, never for a failed meal.
C27_StatusOnlyMovesForward ==
    [][ /\ \A m \in DOMAIN meals \cap DOMAIN meals' :
              \/ meals'[m].processing_status = meals[m].processing_status
              \/ <<meals[m].processing_status, meals'[m].processing_status>> \in ForwardMoves
        /\ \A m \in DOMAIN meals' \ DOMAIN meals : meals'[m].processing_status # "completed"
        /\ \A m \in DOMAIN meals \ DOMAIN meals' :
              \/ /\ meals[m].processing_status = "completed"
                 /\ lastOp'.op = "delete_last_meal" /\ lastOp'.success /\ lastOp'.meal = m
              \/ /\ meals[m].processing_status \in {"pending", "analyzed"}
                 /\ lastOp'.op = "cancel_pending_meal" /\ lastOp'.success /\ lastOp'.meal = m
        /\ daily_summaries' # daily_summaries =>
              \/ /\ lastOp'.op = "complete_meal_processing" /\ lastOp'.success
                 /\ meals[lastOp'.meal].processing_status = "analyzed"
                 /\ meals'[lastOp'.meal].processing_status = "completed"
              \/ /\ lastOp'.op = "delete_last_meal" /\ lastOp'.success
                 /\ meals[lastOp'.meal].processing_status = "completed"
      ]_vars

\* A failed meal is still there, failed, after a later meal of the same user
\* was committed and then deleted.
C27_Witness ==
    /\ lastOp.op = "delete_last_meal" /\ lastOp.success
    /\ \E m \in DOMAIN meals :
          /\ meals[m].processing_status = "failed"
          /\ meals[m].user_id = lastOp.user
          /\ m < lastOp.meal

\* Every violation is named: for each food and each restricted allergen
\* detected in it, a line of the alert has the food and the allergen.
AlertNamesViolations ==
    \A i \in 1..Len(lastOp.foods) : \A a \in RestrictedIn(lastOp.user_restrictions, lastOp.foods[i]) :
        \E n \in 1..Len(lastOp.alert) :
            /\ Contains(lastOp.foods[i].name, lastOp.alert[n])
            /\ Contains("Contains " \o AllergenEntry(a).display_name, lastOp.alert[n])
\* Every safe item is listed: each food with no restricted allergen is in the
\* 'Safe items' line.
AlertListsSafeItems ==
    \A i \in 1..Len(lastOp.foods) :
        RestrictedIn(lastOp.user_restrictions, lastOp.foods[i]) = {} =>
            \E n \in 1..Len(lastOp.alert) :
                /\ Contains("Safe items: ", lastOp.alert[n])
                /\ Contains(lastOp.foods[i].name, lastOp.alert[n])

\* C29: the alert sent for a blocked meal names every violation the screen
\* found, each flagged food with its allergen, and lists every safe item of
\* the meal.
C29_AlertNamesAllAndListsSafe ==
    (lastOp.op = "send_alert" /\ lastOp.blocked) =>
        AlertNamesViolations /\ AlertListsSafeItems

\* C30: whenever a process_meal call made a get_nutrition_data call or wrote a
\* FoodItem or FoodNutrient row, the restrictions it screened against are the
\* user's stored ones and no candidate of the photo matches an allergen of
\* the restricted set: the lookups and the writes come only after the gate
\* let the whole photo through.
C30_LookupOnlyAfterGate ==
    [][ ( /\ lastOp'.op = "process_meal"
          /\ \/ lastOp'.lookups > 0
             \/ food_items' # food_items
             \/ food_nutrients' # food_nutrients )
        => /\ lastOp'.restrictions = users'[lastOp'.user].dietary_restrictions
           /\ lastOp'.exit \in {"analyzed", "lookup_error"}
           /\ \A i \in 1..Len(lastOp'.foods) :
                 ~MatchesRestricted(lastOp'.foods[i], lastOp'.restrictions) ]_vars

\* A user with a stored restriction sent a photo none of whose candidates
\* matches it, and the lookups were made.
C30_Witness ==
    /\ lastOp.op = "process_meal"
    /\ lastOp.restrictions = "shellfish"
    /\ lastOp.foods = <<GardenSalad>>
    /\ lastOp.lookups > 0

C32_DetailsPaginated ==
    lastOp.op = "get_meal_details" =>
        LET n == Len(lastOp.items)
            pages == (n + 4) \div 5
        IN  /\ ~lastOp.raised
            /\ Len(lastOp.messages) = pages
            /\ \A k \in 1..Len(lastOp.messages) :
                  /\ lastOp.messages[k].foods =
                        [j \in 1..((IF 5 * k < n THEN 5 * k ELSE n) - 5 * (k - 1)) |->
                            lastOp.items[5 * (k - 1) + j].name]
                  /\ lastOp.messages[k].totals <=> (k = pages)

\* C33: with an active goal of target value 0, the goal-progress question, the
\* daily-summary question and the category reply each give the user a
\* message, and the reply's status change and ledger update are applied.
C33_ZeroGoalStillAnswers ==
    [][ ( /\ lastOp'.op \in {"goal_progress", "daily_summary", "category_reply"}
          /\ lastOp'.goal = Some(0) )
        => /\ lastOp'.message # None
           /\ lastOp'.op = "category_reply" =>
                 /\ meals'[lastOp'.meal].processing_status = "completed"
                 /\ SummaryOrZero(daily_summaries', lastOp'.user, lastOp'.date).meal_count
                       = lastOp'.before.meal_count + 1 ]_vars

\* C34: a delete_last_meal or cancel_pending_meal whose persistence failed
\* returns success False with its error message and leaves every table as it
\* was: the targeted meal and its FoodItems are still there, every
\* DailySummary is as before, and last_meal_id is unchanged.
C34_FailedPersistenceNoChange ==
    [][ ( /\ lastOp'.op \in {"delete_last_meal", "cancel_pending_meal"}
          /\ lastOp'.message \in {"Error deleting meal", "Error cancelling meal"} )
        => /\ ~lastOp'.success
           /\ lastOp'.meal \in DOMAIN meals'
           /\ meals' = meals
           /\ food_items' = food_items
           /\ food_nutrients' = food_nutrients
           /\ daily_summaries' = daily_summaries
           /\ users' = users ]_vars

\* The delete of a committed meal that last_meal_id points to and that is
\* counted in its day's summary failed, and the meal is still there.
C34_Witness ==
    /\ lastOp.op = "delete_last_meal"
    /\ lastOp.message = "Error deleting meal"
    /\ lastOp.meal \in DOMAIN meals
    /\ users[lastOp.user].last_meal_id = Some(lastOp.meal)
    /\ ItemsOf(food_items, lastOp.meal) # {}
    /\ SummaryOrZero(daily_summaries, lastOp.user, DateOf(meals[lastOp.meal].timestamp)).meal_count > 0

\* C35: in every reachable state each FoodItem belongs to an existing meal and
\* has exactly one FoodNutrient, and each FoodNutrient belongs to an existing
\* FoodItem; so nothing of a cancelled or deleted meal remains.
C35_ItemsAndNutrientsOwned ==
    /\ \A i \in DOMAIN food_items :
          /\ food_items[i].meal_id \in DOMAIN meals
          /\ Cardinality({n \in DOMAIN food_nutrients : food_nutrients[n].food_item_id = i}) = 1
    /\ \A n \in DOMAIN food_nutrients : food_nutrients[n].food_item_id \in DOMAIN food_items

\* A meal that had food items was cancelled or deleted while another meal's
\* items are stored.
C35_Witness ==
    /\ lastOp.op \in {"cancel_pending_meal", "delete_last_meal"}
    /\ lastOp.success
    /\ lastOp.meal \notin DOMAIN meals
    /\ \E i \in DOMAIN food_items : food_items[i].meal_id > lastOp.meal
    /\ \E i \in 1..(next_food_id - 1) : i \notin DOMAIN food_items

\* C36: whenever the requests are handled one at a time, for every user and
\* date the meal_count of the DailySummary is the number of the user's
\* committed meals of that date, and total_calories, total_protein,
\* total_carbs and total_fat are the sums of those nutrients over the
\* FoodNutrient rows of those meals, a missing row counting as zeros.
C36_LedgerMatchesCommittedMeals ==
    \A u \in Phones, d \in Dates :
        LET summary == SummaryOrZero(daily_summaries, u, d)
        IN  /\ summary.meal_count = Cardinality(CompletedOn(u, d))
            /\ summary.total_calories = SumOfMeals(CompletedOn(u, d), "calories")
            /\ summary.total_protein = SumOfMeals(CompletedOn(u, d), "protein_g")
            /\ summary.total_carbs = SumOfMeals(CompletedOn(u, d), "carbs_g")
            /\ summary.total_fat = SumOfMeals(CompletedOn(u, d), "fat_g")

\* After two commits of one date, a category correction somewhere and the
\* delete of one of the two meals, the summary counts the meal that is left.
C36_Witness ==
    /\ lastOp.op = "text_message"
    /\ lastOp.branch = "delete_meal"
    /\ lastOp.reply = "Deleted"
    /\ \E d \in Dates :
          /\ SummaryOrZero(daily_summaries, lastOp.user, d).meal_count = 1
          /\ SummaryOrZero(daily_summaries, lastOp.user, d).total_calories > 0
          /\ \E m \in CompletedOn(lastOp.user, d) : meals[m].meal_type = "lunch"

\* C37: each meal is added to the ledger at most once: however the category
\* replies interleave, the meal_count of every DailySummary is at most the
\* number of the user's committed meals of its date, and total_calories at
\* most the sum of their calories.
C37_LedgerAtMostOnce ==
    \A u \in Phones, d \in Dates :
        /\ SummaryOrZero(daily_summaries, u, d).meal_count <= Cardinality(CompletedOn(u, d))
        /\ SummaryOrZero(daily_summaries, u, d).total_calories
           <= SumOfMeals(CompletedOn(u, d), "calories")

\* The meals of a user that wait for their category.
AwaitingOf(tbl, user_id) ==
    {x \in DOMAIN tbl : /\ tbl[x].user_id = user_id
                        /\ tbl[x].processing_status = "analyzed"
                        /\ tbl[x].meal_type = "pending"}

\* C38: a valid category reply commits exactly one meal, the user's
\* awaiting-category meal with the latest timestamp; every other meal, the
\* user's other awaiting meals included, keeps its status, its sentinel
\* category and its FoodItems and adds nothing to the ledger, and a meal
\* becomes completed only in the step of a reply, one meal per reply.
C38_ReplyCommitsOnlyLatest ==
    [][ /\ (lastOp'.op = "complete_meal_processing" /\ lastOp'.success)
           => LET m == lastOp'.meal
                  u == lastOp'.user
                  was == SummaryOrZero(daily_summaries, u, lastOp'.date)
                  is == SummaryOrZero(daily_summaries', u, lastOp'.date)
              IN  /\ m \in AwaitingOf(meals, u)
                  /\ \A o \in AwaitingOf(meals, u) : meals[o].timestamp <= meals[m].timestamp
                  /\ meals'[m].processing_status = "completed"
                  /\ AwaitingOf(meals', u) = AwaitingOf(meals, u) \ {m}
                  /\ DOMAIN meals' = DOMAIN meals
                  /\ \A o \in DOMAIN meals \ {m} : meals'[o] = meals[o]
                  /\ food_items' = food_items
                  /\ food_nutrients' = food_nutrients
                  /\ is.meal_count = was.meal_count + 1
                  /\ is.total_calories
                     = was.total_calories + CommitTotals(food_items, food_nutrients, m).calories
                  /\ SameExcept(daily_summaries, daily_summaries', {<<u, lastOp'.date>>})
        /\ LET turned == {o \in DOMAIN meals' :
                             /\ meals'[o].processing_status = "completed"
                             /\ o \in DOMAIN meals
                             /\ meals[o].processing_status # "completed"}
           IN  turned # {} => /\ lastOp'.op = "complete_meal_processing"
                              /\ turned = {lastOp'.meal} ]_vars

\* A reply committed the newer of a user's two awaiting meals, and the older
\* one, with its food items, still waits for its category.
C38_Witness ==
    /\ lastOp.op = "complete_meal_processing" /\ lastOp.success
    /\ meals[lastOp.meal].processing_status = "completed"
    /\ \E o \in AwaitingOf(meals, lastOp.user) :
          /\ o # lastOp.meal
          /\ meals[o].timestamp < meals[lastOp.meal].timestamp
          /\ ItemsOf(food_items, o) # {}
    /\ daily_summaries[<<lastOp.user, lastOp.date>>].meal_count = 1

\* Photos, commit, cancel and delete, the 'Change to Lunch' text, and
\* last_meal_id set as the deletion test sets it.
NextFrame ==
    \/ NextLastMeal
    \/ \E p \in Phones : TextMessage(p, "Change to Lunch")

SpecFrame == Init /\ [][NextFrame]_vars

\* The rows of the other users: their users rows, their meals and the food
\* items and nutrients of those meals, and their summaries.
RowsOfOthers(tbl_users, tbl_meals, fi, fn, ds, user_id) ==
    LET ms == {m \in DOMAIN tbl_meals : tbl_meals[m].user_id # user_id}
        is == {i \in DOMAIN fi : fi[i].meal_id \in ms}
    IN  [users |-> [p \in DOMAIN tbl_users \ {user_id} |-> tbl_users[p]],
         meals |-> [m \in ms |-> tbl_meals[m]],
         food_items |-> [i \in is |-> fi[i]],
         food_nutrients |-> [n \in {x \in DOMAIN fn : fn[x].food_item_id \in is} |-> fn[n]],
         daily_summaries |-> [k \in {x \in DOMAIN ds : x[1] # user_id} |-> ds[k]]]

\* C39: a commit, a cancel, a category correction and a delete issued for one
\* user leave the users rows (last_meal_id included), meals, food items,
\* nutrients and summaries of every other user as they were; a commit and a
\* delete change no DailySummary but the one of the affected meal's date, and
\* a cancel and a correction change none.
C39_OnlyOwnRowsAndDate ==
    [][ ( \/ lastOp'.op \in {"complete_meal_processing", "cancel_pending_meal",
                             "delete_last_meal"}
          \/ /\ lastOp'.op = "text_message"
             /\ lastOp'.branch \in {"change_to", "category_reply"} )
        => LET u == lastOp'.user
           IN  /\ RowsOfOthers(users', meals', food_items', food_nutrients', daily_summaries', u)
                  = RowsOfOthers(users, meals, food_items, food_nutrients, daily_summaries, u)
               /\ IF /\ lastOp'.op \in {"complete_meal_processing", "delete_last_meal"}
                     /\ lastOp'.success
                  THEN SameExcept(daily_summaries, daily_summaries',
                                  {<<u, DateOf(meals[lastOp'.meal].timestamp)>>})
                  ELSE IF lastOp'.op = "text_message" /\ lastOp'.reply = "confirmation"
                  THEN SameExcept(daily_summaries, daily_summaries',
                                  {<<u, DateOf(meals[lastOp'.meal[1]].timestamp)>>})
                  ELSE daily_summaries' = daily_summaries ]_vars

\* A commit for a user who has a summary of an earlier date, while the other
\* user has a committed meal with food items, a last_meal_id and a summary of
\* the date of the commit.
C39_Witness ==
    /\ lastOp.op = "complete_meal_processing" /\ lastOp.success
    /\ \E d \in Dates : /\ d # lastOp.date
                        /\ <<lastOp.user, d>> \in DOMAIN daily_summaries
                        /\ daily_summaries[<<lastOp.user, d>>].meal_count > 0
    /\ \E p \in Phones \ {lastOp.user} :
          /\ p \in DOMAIN users /\ users[p].last_meal_id # None
          /\ \E m \in DOMAIN meals : /\ meals[m].user_id = p
                                     /\ meals[m].processing_status = "completed"
                                     /\ ItemsOf(food_items, m) # {}
          /\ <<p, lastOp.date>> \in DOMAIN daily_summaries

====
